---------------------------- MODULE Spec2Model ----------------------------
(***************************************************************************)
(* Model of PDFEditor (markomilek/PDFEditor).                              *)
(*                                                                         *)
(*   - the structural visibility interpreter                               *)
(*       src/src/pdfeditor/detect_empty.py                                 *)
(*   - the decision combiner and the single-file orchestration             *)
(*       src/src/pdfeditor/processor.py                                    *)
(*                                                                         *)
(* Encoding of Python values.                                              *)
(*   float        an integer number of tenths (1.0 is 10, 0.5 is 5)        *)
(*   Optional[x]  a sequence: None is << >>, a value v is << v >>          *)
(*   operand      a record [kind, num, str]: a PDF number (num, in tenths) *)
(*                or a PDF name (str)                                      *)
(*   dict         a function from its keys                                 *)
(* The diagnostic lists paint_ops_found, state_ops_found, extgstate_hits   *)
(* and the last_seen_* mirror of the state, and the debug record, are      *)
(* write-only in the source and are not modelled.                          *)
(***************************************************************************)
EXTENDS Integers, Sequences, FiniteSets, TLC

VARIABLES
    \* ---- _evaluate_operations: one scan of an operator list
    pc,          \* position of the scan: "scan", "returned" or "exhausted"
    resources,   \* the page's /ExtGState dictionary, as resolved at line 301
    pos,         \* number of loop iterations of line 305 executed so far
    op,          \* the loop variable (operands, operator) of the last iteration
    state,       \* the current VisibilityState
    stack,       \* the q/Q stack of saved VisibilityStates
    details,     \* the counters and notes of the details dictionary
    result,      \* the (is_empty, reason) returned by the scan, << >> if none
    \* ---- is_page_empty_structural: one call on one page
    page,        \* the page object handed to the call
    treat,       \* treat_annotations_as_empty
    outcome,     \* what the call did: << >> before it, else << record >>
    \* ---- process_pdf: one file; _combine_decisions: one call
    phase,       \* position in process_pdf, or in the call of the combiner
    config,      \* the RunConfig fields process_pdf branches on
    backend,     \* whether pypdfium2 can be imported
    mode,        \* config.effective_mode
    pages_original,
    structural_decisions,
    render_decisions,  \* None, or << the list >>
    decisions,   \* the combined decisions
    errors,      \* the errors list of process_pdf, or what the combiner raised
    output_path, \* None, or << the path >>
    rewritten,   \* None, or << the pages_to_keep rewrite_pdf was called with >>
    status,      \* FileResult.status, "" while none is set
    \* ---- detect_empty_pages_render: one call
    render_phase, \* "idle", "loop" (line 57), "returned" or "raised"
    document,    \* the pages pdfium finds in the file
    params,      \* the arguments of the call
    rendered,    \* the decisions list of line 53
    \* ---- rewrite_pdf: one call
    rewrite_phase, \* "idle", "call", "returned" or "raised"
    source,      \* the document at input_path
    rewrite_args, \* the arguments of the call
    written,     \* None, or << the document written at output_path >>
    rewrite_result, \* None, or << the RewriteResult >>
    \* ---- build_output_path: one call
    path_phase,  \* "idle", "call", "probe" (line 270), "returned" or "raised"
    out_dir,     \* the output directory: usable or not, and the names in it
    suffix,      \* the local variable suffix
    path_result, \* None, or << the candidate and the warnings returned >>
    \* ---- stamp_page_numbers: one call
    stamp_phase, \* "idle", "call", "pages" (line 42), "returned" or "raised"
    stamp_args,  \* the arguments of the call, writer pages included
    stamp_decisions, \* what report_hook has received
    merged,      \* per writer page seen: None, or << the overlay merged >>
    \* ---- to_roman: one call
    roman_phase, \* "idle", "call", "returned" or "raised"
    roman_value, \* the argument of the call
    roman_result, \* None, or << the symbols of the string returned >>
    \* ---- run_cli: the loop over the discovered files
    run_phase,   \* "idle", "files" (line 224) or "reported"
    run_config,  \* the RunConfig of the run
    discovered,  \* what discover_pdfs gave, in its order
    out_names,   \* the names in the output directory
    files        \* the list files of FileResult

vars == <<pc, resources, pos, op, state, stack, details, result,
          page, treat, outcome,
          phase, config, backend, mode, pages_original, structural_decisions,
          render_decisions, decisions, errors, output_path, rewritten, status,
          render_phase, document, params, rendered,
          rewrite_phase, source, rewrite_args, written, rewrite_result,
          path_phase, out_dir, suffix, path_result,
          stamp_phase, stamp_args, stamp_decisions, merged,
          roman_phase, roman_value, roman_result,
          run_phase, run_config, discovered, out_names, files>>

scanVars == <<pc, resources, pos, op, state, stack, details, result>>
pageVars == <<page, treat, outcome>>
fileVars == <<phase, config, backend, mode, pages_original,
              structural_decisions, render_decisions, decisions, errors,
              output_path, rewritten, status>>
\* restVars is what the scan and the structural call never touch.
renderVars == <<render_phase, document, params, rendered>>

rewriteVars == <<rewrite_phase, source, rewrite_args, written, rewrite_result>>
pathVars == <<path_phase, out_dir, suffix, path_result>>
stampVars == <<stamp_phase, stamp_args, stamp_decisions, merged>>
romanVars == <<roman_phase, roman_value, roman_result>>
runVars == <<run_phase, run_config, discovered, out_names, files>>
callVars == <<romanVars, runVars>>
restVars == <<renderVars, rewriteVars, pathVars, stampVars, callVars>>

-----------------------------------------------------------------------------
(* Python values *)

None == << >>
Some(v) == << v >>
IsNone(o) == o = << >>
The(o) == o[1]

Num(n) == [kind |-> "num", num |-> n, str |-> ""]
Name(s) == [kind |-> "name", num |-> 0, str |-> s]

\* int(x) of a float x given in tenths: truncation toward zero.
Trunc(n) == IF n >= 0 THEN n \div 10 ELSE -((-n) \div 10)

-----------------------------------------------------------------------------
(* Operator tables, detect_empty.py lines 16-82 *)

PAINT_OPERATORS ==
    {"\"", "'", "B", "B*", "BI", "Do", "F", "S", "TJ", "Tj",
     "b", "b*", "f", "f*", "s", "sh"}

STATE_OPERATORS ==
    {"BT", "CS", "ET", "G", "J", "K", "M", "Q", "RG", "SC", "SCN", "TD", "TL",
     "Tf", "Tm", "Tr", "Ts", "Tw", "Tz", "W", "W*", "c", "cm", "cs", "d", "g",
     "gs", "h", "i", "j", "k", "l", "m", "n", "q", "re", "rg", "ri", "sc",
     "scn", "v", "w", "y"}

TEXT_SHOW_OPERATORS == {"\"", "'", "TJ", "Tj"}

PATH_PAINT_OPERATORS == {"B", "B*", "F", "S", "b", "b*", "f", "f*", "s", "sh"}

\* The operator name pypdf gives an inline image (BI ... ID ... EI).
INLINE_IMAGE == "INLINE IMAGE"

\* _append_limited's default limit.
NotesLimit == 10

\* _default_visibility_state: the opacity 1.0, in tenths.
DefaultOpacity == 10

-----------------------------------------------------------------------------
(* Helpers of the interpreter *)

\* _operand_at(operands, index); indexes are 0-based in the source.
OperandAt(operands, index) ==
    IF index >= Len(operands) THEN None ELSE Some(operands[index + 1])

\* _to_float(value): None for a missing or non-numeric value.
ToFloat(value) ==
    IF IsNone(value) THEN None
    ELSE IF The(value).kind = "num" THEN Some(The(value).num)
    ELSE None

\* _to_int(value, default)
ToInt(value, default) ==
    IF IsNone(value) THEN default
    ELSE IF The(value).kind = "num" THEN Trunc(The(value).num)
    ELSE default

\* _name_value(value): str(value); the text of a number is no resource key.
NameValue(value) ==
    IF IsNone(value) THEN None
    ELSE IF The(value).kind = "name" THEN Some(The(value).str)
    ELSE Some("number")

\* _append_limited(target, value, limit=10)
AppendLimited(target, value) ==
    IF Len(target) >= NotesLimit THEN target ELSE Append(target, value)

\* _default_visibility_state
DefaultVisibilityState ==
    [fill_opacity |-> DefaultOpacity,
     font_size |-> None,
     stroke_opacity |-> DefaultOpacity,
     text_rendering_mode |-> 0,
     extgstate_name |-> None]

\* The fields of details the scan reads or counts in, as set at lines 155-175.
InitialDetails ==
    [invisible_path_events_count |-> 0,
     invisible_text_events_count |-> 0,
     notes |-> << >>,
     paint_ops_seen_count |-> 0,
     visible_mark_found |-> FALSE]

\* Mutant of _opacity_visible: both opacities must be positive.
OpacityVisibleBoth(s) == s.fill_opacity > 0 /\ s.stroke_opacity > 0

\* _opacity_visible
OpacityVisible(s) == s.fill_opacity > 0 \/ s.stroke_opacity > 0

\* Mutant of _text_is_visible: the font size is not looked at.
TextIsVisibleAnyFontSize(s) ==
    IF s.text_rendering_mode = 3 THEN FALSE
    ELSE s.fill_opacity > 0 \/ s.stroke_opacity > 0

\* _text_is_visible
TextIsVisible(s) ==
    IF s.text_rendering_mode = 3 THEN FALSE
    ELSE IF ~IsNone(s.font_size) /\ The(s.font_size) = 0 THEN FALSE
    ELSE OpacityVisible(s)

\* _record_paint_op (the counter; paint_ops_found is not modelled)
RecordPaintOp(d) ==
    [d EXCEPT !.paint_ops_seen_count = @ + 1]

\* dict.get(name) on the resolved /ExtGState dictionary
DictGet(dict, name) ==
    IF name \in DOMAIN dict THEN Some(dict[name]) ELSE None

\* Mutant of _apply_extgstate: a missing /CA takes the value of /ca.
ApplyExtGStateBoth(s, extgstate_value, d) ==
    IF IsNone(extgstate_value)
    THEN [state |-> s,
          details |-> [d EXCEPT !.notes = AppendLimited(@, "unknown_extgstate")]]
    ELSE IF The(extgstate_value).kind # "dict"
    THEN [state |-> s,
          details |-> [d EXCEPT !.notes = AppendLimited(@, "invalid_extgstate")]]
    ELSE LET fill_opacity == ToFloat(The(extgstate_value).ca)
             stroke_opacity == ToFloat(The(extgstate_value).CA)
             s1 == IF IsNone(fill_opacity) THEN s
                   ELSE [s EXCEPT !.fill_opacity = The(fill_opacity)]
             s2 == IF IsNone(stroke_opacity)
                   THEN [s1 EXCEPT !.stroke_opacity = s1.fill_opacity]
                   ELSE [s1 EXCEPT !.stroke_opacity = The(stroke_opacity)]
         IN [state |-> s2, details |-> d]

\* _apply_extgstate: the new (state, details).  An ExtGState value is a
\* record [kind, ca, CA]; kind "dict" has a get method, kind "invalid" has none.
ApplyExtGState(s, extgstate_value, d) ==
    IF IsNone(extgstate_value)
    THEN [state |-> s,
          details |-> [d EXCEPT !.notes = AppendLimited(@, "unknown_extgstate")]]
    ELSE IF The(extgstate_value).kind # "dict"
    THEN [state |-> s,
          details |-> [d EXCEPT !.notes = AppendLimited(@, "invalid_extgstate")]]
    ELSE LET fill_opacity == ToFloat(The(extgstate_value).ca)
             stroke_opacity == ToFloat(The(extgstate_value).CA)
             s1 == IF IsNone(fill_opacity) THEN s
                   ELSE [s EXCEPT !.fill_opacity = The(fill_opacity)]
             s2 == IF IsNone(stroke_opacity) THEN s1
                   ELSE [s1 EXCEPT !.stroke_opacity = The(stroke_opacity)]
         IN [state |-> s2, details |-> d]


-----------------------------------------------------------------------------
(* One iteration of the loop of _evaluate_operations, lines 305-387.       *)
(* A scan configuration c is [state, stack, details, result]; result is    *)
(* << >> while the loop continues and << [is_empty, reason] >> once the    *)
(* loop has returned.                                                      *)

Returned(c, reason) ==
    [c EXCEPT !.result = Some([is_empty |-> FALSE, reason |-> reason])]

\* Mutant of lines 307-310: an inline image is counted and stepped over.
InlineImageStepSkipping(c) ==
    [c EXCEPT !.details = RecordPaintOp(@)]

\* lines 307-310
InlineImageStep(c) ==
    Returned([c EXCEPT !.details =
                 [RecordPaintOp(@) EXCEPT !.visible_mark_found = TRUE]],
             "inline_image")

\* lines 315-317
SaveStep(c) ==
    [c EXCEPT !.stack = Append(@, c.state)]

\* Mutant of the Q branch: an underflow resets the state to the default.
RestoreStepResetting(c) ==
    IF Len(c.stack) > 0
    THEN [c EXCEPT !.state = c.stack[Len(c.stack)],
                   !.stack = SubSeq(@, 1, Len(@) - 1)]
    ELSE [c EXCEPT !.state = DefaultVisibilityState,
                   !.details.notes =
                       AppendLimited(@, "graphics_state_underflow")]

\* Mutant of the Q branch: the stack is popped, the state is not restored.
RestoreStepPopOnly(c) ==
    IF Len(c.stack) > 0
    THEN [c EXCEPT !.stack = SubSeq(@, 1, Len(@) - 1)]
    ELSE [c EXCEPT !.details.notes =
                       AppendLimited(@, "graphics_state_underflow")]

\* lines 318-324
RestoreStep(c) ==
    IF Len(c.stack) > 0
    THEN [c EXCEPT !.state = c.stack[Len(c.stack)],
                   !.stack = SubSeq(@, 1, Len(@) - 1)]
    ELSE [c EXCEPT !.details.notes =
                       AppendLimited(@, "graphics_state_underflow")]

\* lines 325-329
TrStep(operands, c) ==
    [c EXCEPT !.state.text_rendering_mode =
                  ToInt(OperandAt(operands, 0), @)]

\* lines 330-342
TfStep(operands, c) ==
    [c EXCEPT !.state.font_size = ToFloat(OperandAt(operands, 1))]

\* lines 343-362
GsStep(operands, extgstate_resources, c) ==
    LET extgstate_name == NameValue(OperandAt(operands, 0))
    IN IF ~IsNone(extgstate_name)
       THEN LET named == [c.state EXCEPT !.extgstate_name = extgstate_name]
                applied == ApplyExtGState(
                               named,
                               DictGet(extgstate_resources, The(extgstate_name)),
                               c.details)
            IN [c EXCEPT !.state = applied.state, !.details = applied.details]
       ELSE [c EXCEPT !.details.notes = AppendLimited(@, "gs_without_name")]

\* lines 363-371
TextShowStep(c) ==
    LET counted == [c EXCEPT !.details = RecordPaintOp(@)]
    IN IF TextIsVisible(c.state)
       THEN Returned([counted EXCEPT !.details.visible_mark_found = TRUE],
                     "visible_text")
       ELSE [counted EXCEPT !.details.invisible_text_events_count = @ + 1]

\* Mutant of the Do branch: Do is judged by the opacities, like a path.
DoStepByOpacity(c) ==
    LET counted == [c EXCEPT !.details = RecordPaintOp(@)]
    IN IF (c.state.fill_opacity > 0 \/ c.state.stroke_opacity > 0)
       THEN [counted EXCEPT
                !.details.visible_mark_found = TRUE,
                !.result = Some([is_empty |-> FALSE, reason |-> "xobject_paint"])]
       ELSE counted

\* lines 372-376
DoStep(c) ==
    Returned([c EXCEPT !.details =
                 [RecordPaintOp(@) EXCEPT !.visible_mark_found = TRUE]],
             "xobject_paint")

\* lines 377-385
PathPaintStep(c) ==
    LET counted == [c EXCEPT !.details = RecordPaintOp(@)]
    IN IF OpacityVisible(c.state)
       THEN Returned([counted EXCEPT !.details.visible_mark_found = TRUE],
                     "visible_path_paint")
       ELSE [counted EXCEPT !.details.invisible_path_events_count = @ + 1]

\* The body of the loop for one (operands, operator) pair.
EvalOp(o, extgstate_resources, c) ==
    IF o.operator = INLINE_IMAGE THEN InlineImageStep(c)
    ELSE IF o.operator = "q" THEN SaveStep(c)
    ELSE IF o.operator = "Q" THEN RestoreStep(c)
    ELSE IF o.operator = "Tr" THEN TrStep(o.operands, c)
    ELSE IF o.operator = "Tf" THEN TfStep(o.operands, c)
    ELSE IF o.operator = "gs" THEN GsStep(o.operands, extgstate_resources, c)
    ELSE IF o.operator \in TEXT_SHOW_OPERATORS THEN TextShowStep(c)
    ELSE IF o.operator = "Do" THEN DoStep(c)
    ELSE IF o.operator \in PATH_PAINT_OPERATORS THEN PathPaintStep(c)
    ELSE c

\* The configuration at line 302-303, with the details of lines 155-175.
InitialScan ==
    [state |-> DefaultVisibilityState,
     stack |-> << >>,
     details |-> InitialDetails,
     result |-> None]

\* _evaluate_operations run to its return: the loop stops at the first
\* iteration that returns, and returns None (result << >>) at the end.
RECURSIVE EvaluateFrom(_, _, _, _)
EvaluateFrom(operations, k, extgstate_resources, c) ==
    IF k > Len(operations) \/ ~IsNone(c.result) THEN c
    ELSE EvaluateFrom(operations, k + 1, extgstate_resources,
                      EvalOp(operations[k], extgstate_resources, c))

EvaluateOperations(operations, extgstate_resources) ==
    EvaluateFrom(operations, 1, extgstate_resources, InitialScan)

-----------------------------------------------------------------------------
(* Bounded inputs of the scan *)

\* Longest operator list scanned.
MaxOps == 4

\* Deepest q nesting scanned.
MaxStack == 2

Operation(operands, operator) == [operands |-> operands, operator |-> operator]

NoOperation == Operation(<< >>, "")

ExtGState(ca, CA) == [kind |-> "dict", ca |-> ca, CA |-> CA]

\* An /ExtGState entry that is no dictionary (has no get method).
InvalidExtGState == [kind |-> "invalid", ca |-> None, CA |-> None]

\* The /ExtGState dictionaries of the pages scanned.
ExtGStateDicts ==
    { [n \in {} |-> InvalidExtGState],
      [n \in {"/GS0"} |-> ExtGState(Some(Num(0)), Some(Num(0)))],
      [n \in {"/GS0", "/GS1"} |->
          IF n = "/GS0" THEN ExtGState(Some(Num(0)), None)
          ELSE ExtGState(None, Some(Num(0)))],
      [n \in {"/GS0", "/GS1"} |->
          IF n = "/GS0" THEN ExtGState(Some(Num(-10)), Some(Num(0)))
          ELSE ExtGState(Some(Num(5)), Some(Name("/Normal")))],
      [n \in {"/GS0"} |-> InvalidExtGState] }

TrOperations ==
    { Operation(operands, "Tr") :
        operands \in { << >>, <<Num(0)>>, <<Num(30)>>, <<Num(37)>>,
                       <<Name("/Invisible")>> } }

TfOperations ==
    { Operation(operands, "Tf") :
        operands \in { <<Name("/F1"), Num(0)>>, <<Name("/F1"), Num(120)>>,
                       <<Name("/F1")>> } }

GsOperations ==
    { Operation(operands, "gs") :
        operands \in { << >>, <<Name("/GS0")>>, <<Name("/GS1")>> } }

TextShowOperations == { Operation(<< >>, o) : o \in TEXT_SHOW_OPERATORS }

PathPaintOperations == { Operation(<< >>, o) : o \in PATH_PAINT_OPERATORS }

\* Operators the interpreter has no branch for: recorded state operators
\* and one operator in neither table.
OtherOperations == { Operation(<< >>, o) : o \in {"BT", "re", "cm", "EMC"} }

-----------------------------------------------------------------------------
(* SpecScan: _evaluate_operations, one action per branch of its loop.      *)
(* The operator list is any list of at most MaxOps operators with q nested *)
(* at most MaxStack deep: each iteration draws the list's next operator.   *)

Scan == [state |-> state, stack |-> stack, details |-> details, result |-> result]

IterateWithin(o, longest) ==
    /\ pc = "scan"
    /\ pos < longest
    /\ LET c == EvalOp(o, resources, Scan)
       IN /\ state' = c.state
          /\ stack' = c.stack
          /\ details' = c.details
          /\ result' = c.result
          /\ pc' = IF IsNone(c.result) THEN "scan" ELSE "returned"
    /\ pos' = pos + 1
    /\ op' = o
    /\ UNCHANGED <<resources, pageVars, fileVars, restVars>>

Iterate(o) == IterateWithin(o, MaxOps)

InlineImage == Iterate(Operation(<< >>, INLINE_IMAGE))

Save == Len(stack) < MaxStack /\ Iterate(Operation(<< >>, "q"))

Restore == Iterate(Operation(<< >>, "Q"))

SetTextRenderingMode == \E o \in TrOperations : Iterate(o)

SetFont == \E o \in TfOperations : Iterate(o)

SetExtGState == \E o \in GsOperations : Iterate(o)

TextShow == \E o \in TextShowOperations : Iterate(o)

InvokeXObject == Iterate(Operation(<<Name("/Im0")>>, "Do"))

PathPaint == \E o \in PathPaintOperations : Iterate(o)

OtherOperator == \E o \in OtherOperations : Iterate(o)

\* The list is exhausted: line 389, return None.
Exhausted ==
    /\ pc = "scan"
    /\ pos > 0
    /\ pc' = "exhausted"
    /\ UNCHANGED <<resources, pos, op, state, stack, details, result,
                   pageVars, fileVars, restVars>>

\* No call of the render detector is under way.
NoRender ==
    /\ render_phase = "idle"
    /\ document = << >>
    /\ params = << >>
    /\ rendered = << >>

\* No call of rewrite_pdf is under way.
NoRewrite ==
    /\ rewrite_phase = "idle"
    /\ source = << >>
    /\ rewrite_args = << >>
    /\ written = << >>
    /\ rewrite_result = << >>

\* No call of build_output_path is under way.
NoPath ==
    /\ path_phase = "idle"
    /\ out_dir = << >>
    /\ suffix = 0
    /\ path_result = << >>

\* No call of stamp_page_numbers is under way.
NoStamp ==
    /\ stamp_phase = "idle"
    /\ stamp_args = << >>
    /\ stamp_decisions = << >>
    /\ merged = << >>

\* No call of to_roman is under way.
NoRoman ==
    /\ roman_phase = "idle"
    /\ roman_value = 0
    /\ roman_result = << >>

\* No run of the command line is under way.
NoRun ==
    /\ run_phase = "idle"
    /\ run_config = << >>
    /\ discovered = << >>
    /\ out_names = {}
    /\ files = << >>

NoCall == NoRoman /\ NoRun

NoRest == NoRender /\ NoRewrite /\ NoPath /\ NoStamp /\ NoCall

\* No file is being processed.
NoFile ==
    /\ phase = "idle"
    /\ config = [dry_run |-> FALSE, write_when_unchanged |-> FALSE,
                 strict_xref |-> FALSE, stamp_page_numbers |-> FALSE]
    /\ backend = FALSE
    /\ mode = "structural"
    /\ pages_original = 0
    /\ structural_decisions = << >>
    /\ render_decisions = << >>
    /\ decisions = << >>
    /\ errors = << >>
    /\ output_path = << >>
    /\ rewritten = << >>
    /\ status = ""

ScanInit ==
    /\ pc = "scan"
    /\ resources \in ExtGStateDicts
    /\ pos = 0
    /\ op = NoOperation
    /\ state = InitialScan.state
    /\ stack = InitialScan.stack
    /\ details = InitialScan.details
    /\ result = InitialScan.result
    /\ page = << >>
    /\ treat = FALSE
    /\ outcome = << >>
    /\ NoFile
    /\ NoRest

ScanNext ==
    \/ InlineImage
    \/ Save
    \/ Restore
    \/ SetTextRenderingMode
    \/ SetFont
    \/ SetExtGState
    \/ TextShow
    \/ InvokeXObject
    \/ PathPaint
    \/ OtherOperator
    \/ Exhausted

SpecScan == ScanInit /\ [][ScanNext]_vars

-----------------------------------------------------------------------------
(* SpecLongScan: the same loop on long operator lists made of q, Q and gs, *)
(* the operators that append to details["notes"], so that the list of      *)
(* notes reaches the limit of _append_limited.                             *)

\* Longest operator list of the long scans.
MaxLongOps == 12

LongSave == Len(stack) < MaxStack /\ IterateWithin(Operation(<< >>, "q"), MaxLongOps)

LongRestore == IterateWithin(Operation(<< >>, "Q"), MaxLongOps)

LongSetExtGState ==
    \E o \in { Operation(<< >>, "gs"), Operation(<<Name("/GS0")>>, "gs") } :
        IterateWithin(o, MaxLongOps)

LongScanInit ==
    /\ ScanInit
    /\ DOMAIN resources = {"/GS0"}
    /\ resources["/GS0"].kind = "dict"

LongScanNext == LongSave \/ LongRestore \/ LongSetExtGState \/ Exhausted

SpecLongScan == LongScanInit /\ [][LongScanNext]_vars

-----------------------------------------------------------------------------
(* SpecGsScan: the same loop on long lists of gs operators that follow at  *)
(* most MaxStack operators q, Tr and Tf, on pages whose /ExtGState entries *)
(* are all dictionaries, so that a gs naming an absent resource is also    *)
(* met once the list of notes is full.                                     *)

GsPrefixOperations ==
    { Operation(<< >>, "q"), Operation(<<Num(30)>>, "Tr"),
      Operation(<<Name("/F1"), Num(0)>>, "Tf") }

GsPrefix ==
    /\ pos < MaxStack
    /\ \E o \in GsPrefixOperations : IterateWithin(o, MaxLongOps)

LongSetAnyExtGState == \E o \in GsOperations : IterateWithin(o, MaxLongOps)

GsScanInit ==
    /\ ScanInit
    /\ \A n \in DOMAIN resources : resources[n].kind = "dict"

GsScanNext == GsPrefix \/ LongSetAnyExtGState \/ Exhausted

SpecGsScan == GsScanInit /\ [][GsScanNext]_vars

-----------------------------------------------------------------------------
(* is_page_empty_structural, lines 127-229.                                *)
(*                                                                         *)
(* A page is [resources, annots, contents].                                *)
(*   resources  [kind, XObject, Font, ExtGState]: /Resources, kind         *)
(*              "absent", "dict", or "bad" (an object without items);      *)
(*              XObject and Font are [kind, count], ExtGState is           *)
(*              [kind, dict], each of kind "absent", "dict" or "bad".      *)
(*   annots     [kind, count]: /Annots, kind "absent", "array", or "bad"   *)
(*              (an object without a length, such as null or a number).    *)
(*   contents   [kind, data, operations]: /Contents, kind "absent", "null" *)
(*              (get_contents() gives None), "unreadable" (get_contents()  *)
(*              or get_data() raises) or "stream"; data is the decoded     *)
(*              bytes; operations is [kind, list] with kind "list",        *)
(*              "raises" (reading the operations attribute raises an       *)
(*              exception other than AttributeError) or "attribute_error"  *)
(*              (it raises AttributeError, which the getattr of line 204   *)
(*              answers with its default, []).                             *)

\* chr(byte).isspace() for a byte
PyIsSpace(byte) == byte \in {9, 10, 11, 12, 13, 28, 29, 30, 31, 32, 133, 160}

\* _strip_pdf_comments_and_whitespace
RECURSIVE StripFrom(_, _, _)
StripFrom(content, k, in_comment) ==
    IF k > Len(content) THEN << >>
    ELSE LET byte == content[k]
         IN IF in_comment
            THEN StripFrom(content, k + 1, ~(byte \in {10, 13}))
            ELSE IF byte = 37 THEN StripFrom(content, k + 1, TRUE)
            ELSE IF PyIsSpace(byte) THEN StripFrom(content, k + 1, FALSE)
            ELSE <<byte>> \o StripFrom(content, k + 1, FALSE)

StripPdfCommentsAndWhitespace(content) == StripFrom(content, 1, FALSE)

\* _resolve_dict, _dict_has_entries and _dict_count raise TypeError on an
\* object without items; _count_entries on an object without a length.
RaisesTypeError(value) == value.kind = "bad"

\* _dict_has_entries
DictHasEntries(value) == value.kind = "dict" /\ value.count > 0

\* _count_entries
CountEntries(value) == IF value.kind = "array" THEN value.count ELSE 0

\* resources.get(key) on the dictionary _resolve_dict gives: an absent
\* /Resources resolves to {} and every key is absent.
Absent == [kind |-> "absent", count |-> 0]

ResourceGet(pg, key) ==
    IF pg.resources.kind = "dict" THEN pg.resources[key] ELSE Absent

\* The dictionary _resolve_dict(resources.get("/ExtGState")) gives, line 301.
EmptyDict == [n \in {} |-> 0]

ExtGStateResources(pg) ==
    IF pg.resources.kind = "dict" /\ pg.resources.ExtGState.kind = "dict"
    THEN pg.resources.ExtGState.dict
    ELSE EmptyDict

\* list(getattr(contents, "operations", [])), line 204.
GetOperations(contents) ==
    IF contents.operations.kind = "attribute_error" THEN << >>
    ELSE contents.operations.list

\* The value of a call: (is_empty, reason, details); error is the presence
\* of details["error"]; failure names what raised during the call ("" when
\* nothing did), whether or not the exception reached line 224.
Verdict(is_empty, reason, d, failure) ==
    [is_empty |-> is_empty, reason |-> reason, details |-> d,
     error |-> FALSE, failure |-> failure]

\* lines 224-226
UnknownStructure(d, failure) ==
    [is_empty |-> FALSE, reason |-> "unknown_structure", details |-> d,
     error |-> TRUE, failure |-> failure]

\* Mutant of lines 203-223: paint_ops_seen_count is not looked at.
JudgeOperationsWithoutCount(pg) ==
    LET d == InitialDetails
        contents == pg.contents
        failure == IF contents.operations.kind = "attribute_error"
                   THEN "operations" ELSE ""
        operations == GetOperations(contents)
    IN IF contents.operations.kind = "raises"
       THEN UnknownStructure(d, "operations")
       ELSE IF Len(operations) = 0
       THEN Verdict(TRUE, "no_paint_ops", d, failure)
       ELSE LET c == EvaluateOperations(operations, ExtGStateResources(pg))
            IN IF ~IsNone(c.result)
               THEN Verdict(The(c.result).is_empty, The(c.result).reason,
                            c.details, failure)
               ELSE Verdict(TRUE, "no_paint_ops", c.details, failure)

\* lines 203-223: the operator list and its scan
JudgeOperations(pg) ==
    LET d == InitialDetails
        contents == pg.contents
        failure == IF contents.operations.kind = "attribute_error"
                   THEN "operations" ELSE ""
        operations == GetOperations(contents)
    IN IF contents.operations.kind = "raises"
       THEN UnknownStructure(d, "operations")
       ELSE IF Len(operations) = 0
       THEN Verdict(TRUE, "no_paint_ops", d, failure)
       ELSE LET c == EvaluateOperations(operations, ExtGStateResources(pg))
            IN IF ~IsNone(c.result)
               THEN Verdict(The(c.result).is_empty, The(c.result).reason,
                            c.details, failure)
               ELSE IF c.details.paint_ops_seen_count > 0
               THEN Verdict(TRUE, "only_invisible_paint", c.details, failure)
               ELSE Verdict(TRUE, "no_paint_ops", c.details, failure)

\* Mutant of lines 184-201: the test of line 188 is missing, and get_data
\* is called on the None that get_contents() gave.
JudgeContentsWithoutNoneTest(pg) ==
    LET d == InitialDetails
        contents == pg.contents
    IN IF contents.kind = "absent" THEN Verdict(TRUE, "no_contents", d, "")
       ELSE IF contents.kind \in {"null", "unreadable"}
       THEN UnknownStructure(d, "contents")
       ELSE IF StripPdfCommentsAndWhitespace(contents.data) = << >>
       THEN Verdict(TRUE, "contents_whitespace_only", d, "")
       ELSE JudgeOperations(pg)

\* lines 184-201: the content stream
JudgeContents(pg) ==
    LET d == InitialDetails
        contents == pg.contents
    IN IF contents.kind = "absent" THEN Verdict(TRUE, "no_contents", d, "")
       ELSE IF contents.kind = "null" THEN Verdict(TRUE, "no_contents", d, "")
       ELSE IF contents.kind = "unreadable" THEN UnknownStructure(d, "contents")
       ELSE IF StripPdfCommentsAndWhitespace(contents.data) = << >>
       THEN Verdict(TRUE, "contents_whitespace_only", d, "")
       ELSE JudgeOperations(pg)

\* Mutant of lines 178-182: the annotations are tested before the XObjects.
JudgeHeaderAnnotationsFirst(pg, treat_annotations_as_empty) ==
    LET d == InitialDetails
        xobject_present == DictHasEntries(ResourceGet(pg, "XObject"))
        annotations_count == CountEntries(pg.annots)
    IN IF annotations_count > 0 /\ ~treat_annotations_as_empty
       THEN Verdict(FALSE, "has_annotations", d, "")
       ELSE IF xobject_present THEN Verdict(FALSE, "has_xobject", d, "")
       ELSE JudgeContents(pg)

\* Mutant of lines 178-182: treat_annotations_as_empty is not looked at.
JudgeHeaderIgnoringFlag(pg, treat_annotations_as_empty) ==
    LET d == InitialDetails
        xobject_present == DictHasEntries(ResourceGet(pg, "XObject"))
        annotations_count == CountEntries(pg.annots)
    IN IF xobject_present THEN Verdict(FALSE, "has_xobject", d, "")
       ELSE IF annotations_count > 0
       THEN Verdict(FALSE, "has_annotations", d, "")
       ELSE JudgeContents(pg)

\* lines 178-182: the tests on XObject resources and annotations
JudgeHeader(pg, treat_annotations_as_empty) ==
    LET d == InitialDetails
        xobject_present == DictHasEntries(ResourceGet(pg, "XObject"))
        annotations_count == CountEntries(pg.annots)
    IN IF xobject_present THEN Verdict(FALSE, "has_xobject", d, "")
       ELSE IF annotations_count > 0 /\ ~treat_annotations_as_empty
       THEN Verdict(FALSE, "has_annotations", d, "")
       ELSE JudgeContents(pg)

\* lines 136-141 resolve the page's dictionaries, then the decision
IsPageEmptyStructural(pg, treat_annotations_as_empty) ==
    LET d == InitialDetails
    IN IF RaisesTypeError(pg.resources) THEN UnknownStructure(d, "resources")
       ELSE IF RaisesTypeError(ResourceGet(pg, "XObject"))
       THEN UnknownStructure(d, "xobject")
       ELSE IF RaisesTypeError(ResourceGet(pg, "Font"))
       THEN UnknownStructure(d, "font")
       ELSE IF RaisesTypeError(ResourceGet(pg, "ExtGState"))
       THEN UnknownStructure(d, "extgstate")
       ELSE IF RaisesTypeError(pg.annots) THEN UnknownStructure(d, "annots")
       ELSE JudgeHeader(pg, treat_annotations_as_empty)

-----------------------------------------------------------------------------
(* Bounded pages *)

\* Longest operator list of a page.
MaxPageOps == 2

\* Longest content stream, in bytes, of a page without operators.
MaxData == 2

SeqsUpTo(S, n) == UNION { [1..k -> S] : k \in 0..n }

EntryCounts == {0, 1, 2}

SubDicts == { [kind |-> k, count |-> 0] : k \in {"absent", "bad"} }
            \cup { [kind |-> "dict", count |-> n] : n \in EntryCounts }

FontDicts == { [kind |-> "absent", count |-> 0], [kind |-> "bad", count |-> 0],
               [kind |-> "dict", count |-> 1] }

ExtGStateValues ==
    { [kind |-> "absent", dict |-> EmptyDict],
      [kind |-> "bad", dict |-> EmptyDict],
      [kind |-> "dict",
       dict |-> [n \in {"/GS0"} |-> ExtGState(Some(Num(0)), Some(Num(0)))]] }

ResourceValues ==
    { [kind |-> k, XObject |-> Absent, Font |-> Absent,
       ExtGState |-> [kind |-> "absent", dict |-> EmptyDict]] :
         k \in {"absent", "bad"} }
    \cup { [kind |-> "dict", XObject |-> x, Font |-> f, ExtGState |-> e] :
             x \in SubDicts, f \in FontDicts, e \in ExtGStateValues }

AnnotValues == { [kind |-> k, count |-> 0] : k \in {"absent", "bad"} }
               \cup { [kind |-> "array", count |-> n] : n \in EntryCounts }

\* LF, "%" and "Q"
DataBytes == {10, 37, 81}

PageOperations ==
    { Operation(<<Num(30)>>, "Tr"), Operation(<<Name("/F1"), Num(0)>>, "Tf"),
      Operation(<<Name("/GS0")>>, "gs"), Operation(<< >>, "Tj"),
      Operation(<< >>, "f"), Operation(<<Name("/Im0")>>, "Do"),
      Operation(<< >>, INLINE_IMAGE), Operation(<< >>, "BT") }

NoOperations == [kind |-> "list", list |-> << >>]

\* A stream without operators holds any bytes; a stream with operators, or
\* whose operators cannot be read, holds bytes that are not all blank.
ContentValues ==
    { [kind |-> k, data |-> << >>, operations |-> NoOperations] :
        k \in {"absent", "null", "unreadable"} }
    \cup { [kind |-> "stream", data |-> data, operations |-> NoOperations] :
             data \in SeqsUpTo(DataBytes, MaxData) }
    \cup { [kind |-> "stream", data |-> <<81>>,
            operations |-> [kind |-> k, list |-> << >>]] :
             k \in {"raises", "attribute_error"} }
    \cup { [kind |-> "stream", data |-> <<81>>,
            operations |-> [kind |-> "list", list |-> list]] :
             list \in SeqsUpTo(PageOperations, MaxPageOps) \ {<< >>} }

Pages ==
    { [resources |-> r, annots |-> a, contents |-> c] :
        r \in ResourceValues, a \in AnnotValues, c \in ContentValues }

-----------------------------------------------------------------------------
(* SpecPage: one call of is_page_empty_structural on a page.               *)

CallIsPageEmptyStructural ==
    /\ IsNone(outcome)
    /\ outcome' = Some(IsPageEmptyStructural(page, treat))
    /\ UNCHANGED <<page, treat, scanVars, fileVars, restVars>>

PageInit ==
    /\ page \in Pages
    /\ treat \in BOOLEAN
    /\ outcome = None
    /\ pc = "idle"
    /\ resources = EmptyDict
    /\ pos = 0
    /\ op = NoOperation
    /\ state = InitialScan.state
    /\ stack = InitialScan.stack
    /\ details = InitialScan.details
    /\ result = InitialScan.result
    /\ NoFile
    /\ NoRest

PageNext == CallIsPageEmptyStructural

SpecPage == PageInit /\ [][PageNext]_vars

-----------------------------------------------------------------------------
(* Claims on the scan, checked under SpecScan and SpecLongScan *)

\* An iteration of the loop on an operator of the set ops is being taken.
Iterates(ops) == pc = "scan" /\ pos' = pos + 1 /\ op'.operator \in ops

ReturnedWith(reason) ==
    /\ pc = "returned"
    /\ result = Some([is_empty |-> FALSE, reason |-> reason])

\* C1: a text-show operator (Tj, TJ, ', ") ends the scan with
\* (is_empty = false, visible_text) exactly when text_rendering_mode is not 3,
\* font_size is not 0 and one of the two opacities is above 0; in every other
\* state the scan goes on to the next operator with the state and the stack
\* as they were and invisible_text_events_count one higher.
C1_TextShowVisibleIff ==
    [][Iterates({"Tj", "TJ", "'", "\""}) =>
        IF /\ state.text_rendering_mode # 3
           /\ state.font_size # Some(0)
           /\ (state.fill_opacity > 0 \/ state.stroke_opacity > 0)
        THEN /\ pc' = "returned"
             /\ result' = Some([is_empty |-> FALSE, reason |-> "visible_text"])
             /\ details'.invisible_text_events_count =
                    details.invisible_text_events_count
        ELSE /\ pc' = "scan"
             /\ result' = None
             /\ state' = state
             /\ stack' = stack
             /\ details'.invisible_text_events_count =
                    details.invisible_text_events_count + 1]_vars

\* C1 witness: a scan that skipped an invisible text-show operator and was
\* then ended by a visible one.
C1_Witness ==
    /\ op.operator \in TEXT_SHOW_OPERATORS
    /\ ReturnedWith("visible_text")
    /\ details.invisible_text_events_count = 1

\* C2: a path-paint operator (S, s, f, f*, F, B, B*, b, b*, sh) ends the scan
\* with is_empty = false exactly when fill_opacity > 0 or stroke_opacity > 0,
\* whatever text_rendering_mode and font_size are; when both opacities are
\* <= 0 the scan goes on and invisible_path_events_count is one higher.
C2_PathPaintVisibleIff ==
    [][Iterates({"S", "s", "f", "f*", "F", "B", "B*", "b", "b*", "sh"}) =>
        IF state.fill_opacity > 0 \/ state.stroke_opacity > 0
        THEN /\ pc' = "returned"
             /\ ~IsNone(result')
             /\ The(result').is_empty = FALSE
             /\ details'.invisible_path_events_count =
                    details.invisible_path_events_count
        ELSE /\ pc' = "scan"
             /\ result' = None
             /\ state' = state
             /\ stack' = stack
             /\ details'.invisible_path_events_count =
                    details.invisible_path_events_count + 1]_vars

\* C2 witness: a path painted with both opacities <= 0 was skipped and a
\* later path, painted with a positive opacity, ended the scan.
C2_Witness ==
    /\ op.operator \in PATH_PAINT_OPERATORS
    /\ pc = "returned"
    /\ result = Some([is_empty |-> FALSE, reason |-> "visible_path_paint"])
    /\ details.invisible_path_events_count = 1

\* C3: a Do operator or an inline image always ends the scan with
\* is_empty = false, reason xobject_paint for Do and inline_image for an
\* inline image, in every VisibilityState.
C3_XObjectAndInlineImageEndScan ==
    [][/\ Iterates({"Do"}) =>
            /\ pc' = "returned"
            /\ result' = Some([is_empty |-> FALSE, reason |-> "xobject_paint"])
       /\ Iterates({INLINE_IMAGE}) =>
            /\ pc' = "returned"
            /\ result' = Some([is_empty |-> FALSE, reason |-> "inline_image"])]_vars

\* C3 witness: Do ended a scan whose state had both opacities at 0,
\* text_rendering_mode 3 and font_size 0.
C3_Witness ==
    /\ op.operator = "Do"
    /\ ReturnedWith("xobject_paint")
    /\ state.fill_opacity = 0
    /\ state.stroke_opacity = 0
    /\ state.text_rendering_mode = 3
    /\ state.font_size = Some(0)

\* C25: q pushes a copy of the current VisibilityState and leaves the state
\* as it is; a Q met with a non-empty stack makes the state the copy pushed
\* by the matching q (fill_opacity, stroke_opacity, text_rendering_mode and
\* font_size are back to their values at the q) and pops it; no other
\* operator (Tr, Tf, gs or any change made after a q) alters the saved copies.
C25_SaveRestore ==
    [][/\ Iterates({"q"}) =>
            /\ stack' = Append(stack, state)
            /\ state' = state
       /\ (Iterates({"Q"}) /\ stack # << >>) =>
            /\ state' = stack[Len(stack)]
            /\ stack' = SubSeq(stack, 1, Len(stack) - 1)
            /\ pc' = "scan"
       /\ (pc = "scan" /\ pos' = pos + 1 /\ op'.operator \notin {"q", "Q"}) =>
            stack' = stack]_vars

\* C25 witness: a text-show operator met fourth, after a q and its matching
\* Q, was judged under the default state (text_rendering_mode 0), as in
\* q 3 Tr Q Tj.
C25_Witness ==
    /\ op.operator \in TEXT_SHOW_OPERATORS
    /\ ReturnedWith("visible_text")
    /\ pos = 4
    /\ stack = << >>
    /\ details.notes = << >>
    /\ state = DefaultVisibilityState

HasNote(notes, note) == \E k \in 1..Len(notes) : notes[k] = note

\* The gs being iterated names a resource of the page's /ExtGState.
GsNamesResource ==
    /\ op'.operands # << >>
    /\ op'.operands[1].str \in DOMAIN resources

\* The value an opacity has after a gs whose resource holds entry under
\* /ca or /CA: the entry when it is a number, the old value otherwise.
Supplied(entry, old) ==
    IF entry # None /\ The(entry).kind = "num" THEN The(entry).num ELSE old

\* What every gs leaves alone: the scan goes on, and text_rendering_mode,
\* font_size and the stack are as they were.
GsFrame ==
    /\ pc' = "scan"
    /\ result' = None
    /\ stack' = stack
    /\ state'.text_rendering_mode = state.text_rendering_mode
    /\ state'.font_size = state.font_size

\* C26 as stated: a gs changes only what the named ExtGState supplies:
\* fill_opacity is replaced iff the resource has a numeric /ca and
\* stroke_opacity iff it has a numeric /CA, while text_rendering_mode,
\* font_size and the stack are unchanged; a gs naming a resource absent from
\* /ExtGState leaves both opacities unchanged, records a note, and never
\* ends the scan.
C26_AbsentAlwaysNoted ==
    [][Iterates({"gs"}) =>
        /\ GsFrame
        /\ IF GsNamesResource
           THEN LET named == resources[op'.operands[1].str]
                IN /\ state'.fill_opacity =
                          Supplied(named.ca, state.fill_opacity)
                   /\ state'.stroke_opacity =
                          Supplied(named.CA, state.stroke_opacity)
           ELSE /\ state'.fill_opacity = state.fill_opacity
                /\ state'.stroke_opacity = state.stroke_opacity
                /\ op'.operands # << >> =>
                       HasNote(details'.notes, "unknown_extgstate")]_vars

\* C26 as amended: the same, except that the note of a gs naming an absent
\* resource (unknown_extgstate) is appended only while details["notes"]
\* holds fewer than 10 notes; a gs of a resource that is present records no
\* note.
C26_GsChangesOnlySupplied ==
    [][Iterates({"gs"}) =>
        /\ GsFrame
        /\ details'.paint_ops_seen_count = details.paint_ops_seen_count
        /\ IF GsNamesResource
           THEN LET named == resources[op'.operands[1].str]
                IN /\ state'.fill_opacity =
                          Supplied(named.ca, state.fill_opacity)
                   /\ state'.stroke_opacity =
                          Supplied(named.CA, state.stroke_opacity)
                   /\ details'.notes = details.notes
           ELSE /\ state'.fill_opacity = state.fill_opacity
                /\ state'.stroke_opacity = state.stroke_opacity
                /\ op'.operands # << >> =>
                       details'.notes =
                           IF Len(details.notes) < 10
                           THEN Append(details.notes, "unknown_extgstate")
                           ELSE details.notes]_vars

\* C26 witness: after a gs of /GS0 had set fill_opacity to 0 and ten gs
\* without a name had filled the notes, a gs naming /GS1, which the page's
\* /ExtGState does not hold, left the opacities and the notes as they were.
C26_Witness ==
    /\ op = Operation(<<Name("/GS1")>>, "gs")
    /\ "/GS1" \notin DOMAIN resources
    /\ pc = "scan"
    /\ pos = 12
    /\ state.fill_opacity = 0
    /\ state.extgstate_name = Some("/GS1")
    /\ Len(details.notes) = 10
    /\ ~HasNote(details.notes, "unknown_extgstate")

\* C7 as stated: a Q met with an empty stack leaves the state as it was and
\* the stack empty, goes on to the next operator, and records the note
\* graphics_state_underflow.
C7_UnderflowAlwaysNoted ==
    [][(Iterates({"Q"}) /\ stack = << >>) =>
        /\ pc' = "scan"
        /\ result' = None
        /\ state' = state
        /\ stack' = << >>
        /\ HasNote(details'.notes, "graphics_state_underflow")]_vars

\* C7 as amended: a Q met with an empty stack never ends the scan, leaves
\* the VisibilityState as it was and the stack empty, and appends the note
\* graphics_state_underflow unless details["notes"] already holds 10 notes,
\* in which case the notes are left as they were.
C7_UnderflowNotedUpToLimit ==
    [][(Iterates({"Q"}) /\ stack = << >>) =>
        /\ pc' = "scan"
        /\ result' = None
        /\ state' = state
        /\ stack' = << >>
        /\ details'.notes =
              IF Len(details.notes) < 10
              THEN Append(details.notes, "graphics_state_underflow")
              ELSE details.notes
        /\ details'.paint_ops_seen_count = details.paint_ops_seen_count]_vars

\* C7 witness: a Q on an empty stack, met after a gs had set the opacities
\* to 0 and ten gs_without_name notes had filled the list, left the state
\* and the notes as they were and the scan running.
C7_Witness ==
    /\ op.operator = "Q"
    /\ pc = "scan"
    /\ pos = 12
    /\ stack = << >>
    /\ Len(details.notes) = 10
    /\ ~HasNote(details.notes, "graphics_state_underflow")
    /\ state.fill_opacity = 0

-----------------------------------------------------------------------------
(* Claims on is_page_empty_structural, checked under SpecPage *)

Called == ~IsNone(outcome)

Judged(is_empty, reason) ==
    /\ The(outcome).is_empty = is_empty
    /\ The(outcome).reason = reason

\* The (is_empty, reason) of a call on another page.
Judgement(pg, flag) ==
    LET v == IsPageEmptyStructural(pg, flag)
    IN [is_empty |-> v.is_empty, reason |-> v.reason]

\* The page's resources hold at least one /XObject entry.
HasXObjectEntry ==
    /\ page.resources.kind = "dict"
    /\ page.resources.XObject.kind = "dict"
    /\ page.resources.XObject.count >= 1

\* The page's resources hold no /XObject entry.
HasNoXObjectEntry ==
    \/ page.resources.kind = "absent"
    \/ /\ page.resources.kind = "dict"
       /\ \/ page.resources.XObject.kind = "absent"
          \/ /\ page.resources.XObject.kind = "dict"
             /\ page.resources.XObject.count = 0

HasAnnotation == page.annots.kind = "array" /\ page.annots.count >= 1

\* /Font, /ExtGState and /Annots are of the types the call resolves.
RestResolves ==
    /\ page.resources.Font.kind # "bad"
    /\ page.resources.ExtGState.kind # "bad"
    /\ page.annots.kind # "bad"

\* The page with n entries added to its /XObject resources.
WithXObjectEntries(pg, n) ==
    [pg EXCEPT !.resources =
        [kind |-> "dict",
         XObject |-> [kind |-> "dict", count |-> pg.resources.XObject.count + n],
         Font |-> pg.resources.Font,
         ExtGState |-> pg.resources.ExtGState]]

\* C4 as stated: a page whose resources hold an /XObject entry is judged
\* (false, has_xobject) whatever its annotations, the flag and its contents.
C4_XObjectAlwaysHasXObject ==
    (Called /\ HasXObjectEntry) => Judged(FALSE, "has_xobject")

\* C4 as amended: a page whose resources hold an /XObject entry is never
\* judged empty, whatever its annotations, the flag and its contents; the
\* reason is has_xobject when /Font, /ExtGState and /Annots resolve, and
\* unknown_structure when one of them is of the wrong type.  Adding an
\* /XObject entry to a page judged empty makes it (false, has_xobject).
C4_XObjectNeverEmpty ==
    Called =>
      /\ HasXObjectEntry =>
            IF RestResolves THEN Judged(FALSE, "has_xobject")
            ELSE Judged(FALSE, "unknown_structure")
      /\ The(outcome).is_empty =>
            \A n \in 1..2 :
                Judgement(WithXObjectEntries(page, n), treat) =
                    [is_empty |-> FALSE, reason |-> "has_xobject"]

\* C4 witness: a page with an /XObject entry, an annotation and invisible
\* text only, judged with annotations counting, is (false, has_xobject).
C4_Witness ==
    /\ Called
    /\ HasXObjectEntry
    /\ HasAnnotation
    /\ ~treat
    /\ page.contents.operations.list =
           <<Operation(<<Num(30)>>, "Tr"), Operation(<< >>, "Tj")>>
    /\ Judged(FALSE, "has_xobject")

\* The content stream is absent, or empty once comments and whitespace are
\* stripped from it.
ContentsBlank ==
    \/ page.contents.kind \in {"absent", "null"}
    \/ /\ page.contents.kind = "stream"
       /\ \A k \in 1..Len(page.contents.data) :
             \/ PyIsSpace(page.contents.data[k])
             \/ \E j \in 1..k :
                   /\ page.contents.data[j] = 37
                   /\ \A i \in j..k : page.contents.data[i] \notin {10, 13}

EmptyReasons == {"no_contents", "contents_whitespace_only", "no_paint_ops"}

\* C5 as stated: every page whose content stream is absent or blank is
\* judged empty with a reason in {no_contents, contents_whitespace_only,
\* no_paint_ops}.
C5_BlankContentsAlwaysEmpty ==
    (Called /\ ContentsBlank) =>
        /\ The(outcome).is_empty
        /\ The(outcome).reason \in EmptyReasons

\* C5 as amended: every page whose resources and annotations resolve, that
\* has no /XObject entry, and no annotation unless annotations are treated
\* as empty, and whose content stream is absent or blank, is judged empty
\* with a reason in {no_contents, contents_whitespace_only, no_paint_ops}.
C5_BlankContentsEmptyUnlessHeader ==
    (/\ Called
     /\ ContentsBlank
     /\ HasNoXObjectEntry
     /\ RestResolves
     /\ (HasAnnotation => treat)) =>
        /\ The(outcome).is_empty
        /\ The(outcome).reason \in EmptyReasons

\* C5 witness: a page with a font, an annotation treated as empty and a
\* content stream holding only a comment is judged empty.
C5_Witness ==
    /\ Called
    /\ page.resources.kind = "dict"
    /\ page.resources.Font.count = 1
    /\ HasNoXObjectEntry
    /\ HasAnnotation
    /\ treat
    /\ page.contents.kind = "stream"
    /\ page.contents.data = <<37, 81>>
    /\ Judged(TRUE, "contents_whitespace_only")

\* C6: whenever something raised while the call resolved the page's
\* resources, annotations, contents or operator list, the call returns
\* (false, unknown_structure) with the error recorded, and never is_empty.
C6_FailureIsUnknownStructure ==
    (Called /\ The(outcome).failure # "") =>
        /\ Judged(FALSE, "unknown_structure")
        /\ The(outcome).error

\* C8 as stated: a page with no /XObject entry and an annotation is
\* (false, has_annotations) when annotations count, whatever its contents,
\* and is judged as the same page without annotations when they do not.
C8_AnnotationsDecideByFlag ==
    (Called /\ HasNoXObjectEntry /\ HasAnnotation) =>
        IF ~treat THEN Judged(FALSE, "has_annotations")
        ELSE [is_empty |-> The(outcome).is_empty,
              reason |-> The(outcome).reason] =
             Judgement([page EXCEPT !.annots = Absent], TRUE)

\* C8 as amended: the same, for a page whose /Font and /ExtGState resources
\* resolve; when one of them is of the wrong type the page is
\* (false, unknown_structure) with either flag.
C8_AnnotationsDecideByFlagIfResolved ==
    (Called /\ HasNoXObjectEntry /\ HasAnnotation) =>
        IF ~RestResolves THEN Judged(FALSE, "unknown_structure")
        ELSE IF ~treat THEN Judged(FALSE, "has_annotations")
        ELSE [is_empty |-> The(outcome).is_empty,
              reason |-> The(outcome).reason] =
             Judgement([page EXCEPT !.annots = Absent], TRUE)

\* C8 witness: an annotated page without a content stream, judged with
\* annotations counting, is (false, has_annotations).
C8_Witness ==
    /\ Called
    /\ HasNoXObjectEntry
    /\ HasAnnotation
    /\ ~treat
    /\ page.contents.kind = "absent"
    /\ Judged(FALSE, "has_annotations")

\* The operator list the call read from the page's content stream.
OpsList == page.contents.operations.list

\* The page with another operator list.
WithList(list) == [page EXCEPT !.contents.operations.list = list]

\* The reasons of a scan ended by a visible event.
VisibleReasons ==
    {"visible_text", "visible_path_paint", "xobject_paint", "inline_image"}

\* The call scanned a non-empty operator list to its end: no test before
\* the scan answered, nothing raised, and no visible event ended the scan.
ScanCompleted ==
    /\ Called
    /\ page.contents.kind = "stream"
    /\ page.contents.operations.kind = "list"
    /\ Len(OpsList) > 0
    /\ The(outcome).reason \notin
           {"has_xobject", "has_annotations", "unknown_structure"}
           \cup VisibleReasons

IsPaintOperation(o) ==
    o.operator \in {"Tj", "TJ", "'", "\"",
                    "S", "s", "f", "f*", "F", "B", "B*", "b", "b*", "sh"}

\* The operators the interpreter has a branch for.
IsInterpreted(o) ==
    \/ IsPaintOperation(o)
    \/ o.operator \in {"q", "Q", "Tr", "Tf", "gs", "Do", INLINE_IMAGE}

\* The configuration the scan of a list ends in.
ScanOf(list) == EvaluateOperations(list, ExtGStateResources(page))

\* C27: when the scan of a non-empty operator list completes without a
\* visible event the page is empty, with reason only_invisible_paint iff the
\* list holds a text-show or path-paint operator (all of them were executed)
\* and no_paint_ops iff it holds none; the operators outside q, Q, Tr, Tf,
\* gs, text-show, Do, inline image and path-paint change neither the
\* VisibilityState, nor the stack, nor this outcome: the list without them
\* ends in the same state and stack and gets the same judgement.
C27_CompletedScanReason ==
    ScanCompleted =>
        /\ The(outcome).is_empty
        /\ The(outcome).reason =
              IF \E k \in 1..Len(OpsList) : IsPaintOperation(OpsList[k])
              THEN "only_invisible_paint"
              ELSE "no_paint_ops"
        /\ LET interpreted == SelectSeq(OpsList, IsInterpreted)
           IN /\ ScanOf(interpreted).state = ScanOf(OpsList).state
              /\ ScanOf(interpreted).stack = ScanOf(OpsList).stack
              /\ Judgement(WithList(interpreted), treat) =
                     Judgement(page, treat)

\* C27 witness: the list 3 Tr, Tj was scanned to its end and the page judged
\* (true, only_invisible_paint).
C27_Witness ==
    /\ ScanCompleted
    /\ OpsList = <<Operation(<<Num(30)>>, "Tr"), Operation(<< >>, "Tj")>>
    /\ Judged(TRUE, "only_invisible_paint")

\* The VisibilityState in which the k-th operator of the list is executed.
StateBefore(k) == ScanOf(SubSeq(OpsList, 1, k - 1)).state

\* C28: the call answers is_empty = true only if the page has no /XObject
\* resource entry, the operator list holds no Do and no inline image, and
\* every text-show operator of the list met text_rendering_mode 3, font_size
\* 0 or both opacities <= 0, and every path-paint operator both opacities
\* <= 0; and a list whose prefix ends the scan with a visible event gets the
\* judgement of that prefix, whatever follows it.
C28_EmptyOnlyIfNothingVisible ==
    /\ (Called /\ The(outcome).is_empty) =>
          /\ HasNoXObjectEntry
          /\ \A k \in 1..Len(OpsList) :
                LET o == OpsList[k].operator
                    s == StateBefore(k)
                    transparent == s.fill_opacity <= 0 /\ s.stroke_opacity <= 0
                IN /\ o \notin {"Do", INLINE_IMAGE}
                   /\ o \in {"Tj", "TJ", "'", "\""} =>
                         \/ s.text_rendering_mode = 3
                         \/ s.font_size = Some(0)
                         \/ transparent
                   /\ o \in {"S", "s", "f", "f*", "F", "B", "B*", "b", "b*",
                              "sh"} => transparent
    /\ Called =>
          \A k \in 1..Len(OpsList) :
              LET prefix == Judgement(WithList(SubSeq(OpsList, 1, k)), treat)
              IN prefix.reason \in VisibleReasons =>
                     /\ Judged(FALSE, prefix.reason)

\* C28 witness: a page whose list is gs /GS0, f, with /GS0 setting both
\* opacities to 0, was judged empty.
C28_Witness ==
    /\ Called
    /\ OpsList = <<Operation(<<Name("/GS0")>>, "gs"), Operation(<< >>, "f")>>
    /\ The(outcome).is_empty

-----------------------------------------------------------------------------
(* processor.py: the combiner                                              *)

Modes == {"structural", "render", "both"}

PageDecision(page_index, is_empty, reason) ==
    [page_index |-> page_index, is_empty |-> is_empty, reason |-> reason]

\* Mutant of _combined_page_decision: mode both asks for both detectors.
CombinedPageDecisionAnd(page_index, structural_decision, render_decision, m) ==
    LET structural_is_empty == structural_decision.is_empty
        render_is_empty ==
            IF IsNone(render_decision) THEN FALSE
            ELSE The(render_decision).is_empty
        verdict ==
            IF m = "structural"
            THEN <<structural_is_empty,
                   IF structural_is_empty THEN "structural_empty"
                   ELSE "non_empty">>
            ELSE IF m = "render"
            THEN <<render_is_empty,
                   IF render_is_empty THEN "render_empty" ELSE "non_empty">>
            ELSE IF structural_is_empty /\ render_is_empty
            THEN <<TRUE, "both_empty">>
            ELSE <<FALSE, "non_empty">>
    IN [page_index |-> page_index,
        is_empty |-> verdict[1],
        reason |-> verdict[2],
        details |->
            [structural_is_empty |-> structural_is_empty,
             structural_reason |-> structural_decision.reason,
             render_is_empty |->
                 IF IsNone(render_decision) THEN None
                 ELSE Some(render_is_empty),
             render_reason |->
                 IF IsNone(render_decision) THEN None
                 ELSE Some(The(render_decision).reason)]]

\* _combined_page_decision; render_decision is None or << a decision >>
CombinedPageDecision(page_index, structural_decision, render_decision, m) ==
    LET structural_is_empty == structural_decision.is_empty
        render_is_empty ==
            IF IsNone(render_decision) THEN FALSE
            ELSE The(render_decision).is_empty
        verdict ==
            IF m = "structural"
            THEN <<structural_is_empty,
                   IF structural_is_empty THEN "structural_empty"
                   ELSE "non_empty">>
            ELSE IF m = "render"
            THEN <<render_is_empty,
                   IF render_is_empty THEN "render_empty" ELSE "non_empty">>
            ELSE IF structural_is_empty /\ render_is_empty
            THEN <<TRUE, "both_empty">>
            ELSE IF structural_is_empty THEN <<TRUE, "structural_empty">>
            ELSE IF render_is_empty THEN <<TRUE, "render_empty">>
            ELSE <<FALSE, "non_empty">>
    IN [page_index |-> page_index,
        is_empty |-> verdict[1],
        reason |-> verdict[2],
        details |->
            [structural_is_empty |-> structural_is_empty,
             structural_reason |-> structural_decision.reason,
             render_is_empty |->
                 IF IsNone(render_decision) THEN None
                 ELSE Some(render_is_empty),
             render_reason |->
                 IF IsNone(render_decision) THEN None
                 ELSE Some(The(render_decision).reason)]]

\* What a call returns or raises: raised is "" when it returns.
Returns(ds) == [raised |-> "", decisions |-> ds]
Raises(message) == [raised |-> message, decisions |-> << >>]

RenderRequired == "Render decisions are required for render-based modes."
SameNumber ==
    "Structural and render decisions must cover the same number of pages."

Min(a, b) == IF a < b THEN a ELSE b

\* Mutant of _combine_decisions: the lengths are not compared, and zip stops
\* at the shorter list.
CombineDecisionsTruncating(structural, render, m) ==
    IF m = "structural"
    THEN Returns([i \in 1..Len(structural) |->
                    CombinedPageDecision(structural[i].page_index,
                                         structural[i], None, m)])
    ELSE IF IsNone(render) THEN Raises(RenderRequired)
    ELSE Returns([i \in 1..Min(Len(structural), Len(The(render))) |->
                    CombinedPageDecision(structural[i].page_index,
                                         structural[i],
                                         Some(The(render)[i]), m)])

\* _combine_decisions; render is None or << the list of render decisions >>
CombineDecisions(structural, render, m) ==
    IF m = "structural"
    THEN Returns([i \in 1..Len(structural) |->
                    CombinedPageDecision(structural[i].page_index,
                                         structural[i], None, m)])
    ELSE IF IsNone(render) THEN Raises(RenderRequired)
    ELSE IF Len(structural) # Len(The(render)) THEN Raises(SameNumber)
    ELSE Returns([i \in 1..Len(structural) |->
                    CombinedPageDecision(structural[i].page_index,
                                         structural[i],
                                         Some(The(render)[i]), m)])

-----------------------------------------------------------------------------
(* Bounded detector outputs *)

MaxPages == 2

\* (is_empty, reason) pairs of the structural detector
StructuralVerdicts == { <<TRUE, "no_paint_ops">>, <<FALSE, "visible_text">> }

\* (is_empty, reason) pairs of the render detector
RenderVerdicts == { <<TRUE, "ink_below_threshold">>,
                    <<FALSE, "ink_above_threshold">>,
                    <<FALSE, "render_failed">> }

\* The lists of n decisions, page_index counting from 0.
DecisionLists(verdicts, n) ==
    { [i \in 1..n |-> PageDecision(i - 1, f[i][1], f[i][2])] :
        f \in [1..n -> verdicts] }

NoScan ==
    /\ pc = "idle"
    /\ resources = EmptyDict
    /\ pos = 0
    /\ op = NoOperation
    /\ state = InitialScan.state
    /\ stack = InitialScan.stack
    /\ details = InitialScan.details
    /\ result = InitialScan.result

NoPage ==
    /\ page = << >>
    /\ treat = FALSE
    /\ outcome = << >>

-----------------------------------------------------------------------------
(* SpecCombine: one call of _combine_decisions.                            *)

CallCombineDecisions ==
    /\ phase = "call"
    /\ LET r == CombineDecisions(structural_decisions, render_decisions, mode)
       IN /\ decisions' = r.decisions
          /\ errors' = IF r.raised = "" THEN << >> ELSE <<r.raised>>
          /\ phase' = IF r.raised = "" THEN "returned" ELSE "raised"
    /\ UNCHANGED <<restVars, scanVars, pageVars, config, backend, mode, pages_original,
                   structural_decisions, render_decisions, output_path,
                   rewritten, status>>

CombineInit ==
    /\ NoScan
    /\ NoPage
    /\ NoRest
    /\ phase = "call"
    /\ config = [dry_run |-> FALSE, write_when_unchanged |-> FALSE,
                 strict_xref |-> FALSE, stamp_page_numbers |-> FALSE]
    /\ backend = FALSE
    /\ mode \in Modes
    /\ pages_original = 0
    /\ \E n \in 0..MaxPages :
          structural_decisions \in DecisionLists(StructuralVerdicts, n)
    /\ \/ render_decisions = None
       \/ \E n \in 0..MaxPages :
             \E l \in DecisionLists(RenderVerdicts, n) :
                render_decisions = Some(l)
    /\ decisions = << >>
    /\ errors = << >>
    /\ output_path = None
    /\ rewritten = None
    /\ status = ""

CombineNext == CallCombineDecisions

SpecCombine == CombineInit /\ [][CombineNext]_vars

-----------------------------------------------------------------------------
(* detect_render.py: the render detector                                   *)
(*                                                                         *)
(* ink_threshold is an integer number of thousandths, center_margin and    *)
(* ink_ratio are fractions [num, den]; a comparison of fractions is done   *)
(* by cross-multiplication.  A bitmap is [width, height, stride,           *)
(* n_channels, buffer], buffer being the sequence of its bytes.            *)

Max(a, b) == IF a > b THEN a ELSE b

Fraction(num, den) == [num |-> num, den |-> den]

\* Mutant of _pixel_is_white: a transparent pixel is judged by its colour.
PixelIsWhiteIgnoringAlpha(red, green, blue, alpha, white_threshold) ==
    /\ red >= white_threshold
    /\ green >= white_threshold
    /\ blue >= white_threshold

\* _pixel_is_white; alpha is None or << the byte >>
PixelIsWhite(red, green, blue, alpha, white_threshold) ==
    IF alpha = Some(0) THEN TRUE
    ELSE /\ red >= white_threshold
         /\ green >= white_threshold
         /\ blue >= white_threshold

\* _sample_bounds: <<start_x, end_x, start_y, end_y>>, << >> when it raises
SampleBounds(width, height, sample, center_margin) ==
    IF sample = "all" THEN <<0, width, 0, height>>
    ELSE IF sample = "center"
    THEN LET margin_x == (width * center_margin.num) \div center_margin.den
             margin_y == (height * center_margin.num) \div center_margin.den
         IN <<margin_x, Max(margin_x, width - margin_x),
              margin_y, Max(margin_y, height - margin_y)>>
    ELSE << >>

MeasureRaises == [raised |-> TRUE, ink_ratio |-> Fraction(0, 1),
                  nonwhite_pixels |-> 0, total_pixels_sampled |-> 0]

Measured(nonwhite, total) ==
    [raised |-> FALSE,
     ink_ratio |-> IF total = 0 THEN Fraction(0, 1)
                   ELSE Fraction(nonwhite, total),
     nonwhite_pixels |-> nonwhite,
     total_pixels_sampled |-> total]

\* _measure_ink_ratio, lines 142-226
MeasureInkRatio(bitmap, sample, background, white_threshold, center_margin) ==
    IF background # "white" THEN MeasureRaises
    ELSE IF bitmap.n_channels < 3 THEN MeasureRaises
    ELSE
      LET channels == bitmap.n_channels
          raw == bitmap.buffer
          bounds == SampleBounds(bitmap.width, bitmap.height, sample,
                                 center_margin)
      IN IF bounds = << >> THEN MeasureRaises
         ELSE
           LET start_x == bounds[1]
               end_x == bounds[2]
               start_y == bounds[3]
               end_y == bounds[4]
               pixel_count == Max(0, end_x - start_x) * Max(0, end_y - start_y)
               \* the pixels the loops of lines 185-187 visit, as <<x, y>>
               sampled == (start_x..(end_x - 1)) \X (start_y..(end_y - 1))
               \* lines 186-188
               Offset(c) == c[2] * bitmap.stride + c[1] * channels
               \* raw[offset + k], the buffer being indexed from 0
               Byte(c, k) == raw[Offset(c) + k + 1]
               NonWhite(c) ==
                   ~PixelIsWhite(Byte(c, 2), Byte(c, 1), Byte(c, 0),
                                 IF channels >= 4 THEN Some(Byte(c, 3))
                                 ELSE None,
                                 white_threshold)
           IN IF pixel_count = 0 THEN Measured(0, 0)
              ELSE IF \E c \in sampled :
                         Offset(c) + (IF channels >= 4 THEN 3 ELSE 2)
                             >= Len(raw)
              THEN MeasureRaises
              ELSE Measured(Cardinality({c \in sampled : NonWhite(c)}),
                            pixel_count)

RenderFailed(page_index) ==
    [page_index |-> page_index, is_empty |-> FALSE, reason |-> "render_failed",
     ink_ratio |-> None, pixel_count |-> 0, background |-> "white"]

\* Mutant of lines 59-133: a page that cannot be measured counts as empty.
RenderPageDecisionFailClosed(pg, page_index, p) ==
    LET diagnostics == MeasureInkRatio(pg.bitmap, p.sample, "white",
                                       p.white_threshold, p.center_margin)
        ink_ratio == diagnostics.ink_ratio
        is_empty == ink_ratio.num * 1000 < p.ink_threshold * ink_ratio.den
    IN IF ~pg.renders THEN RenderFailed(page_index)
       ELSE [page_index |-> page_index,
             is_empty |-> is_empty,
             reason |-> IF is_empty THEN "ink_below_threshold"
                        ELSE "ink_above_threshold",
             ink_ratio |-> Some(ink_ratio),
             pixel_count |-> diagnostics.total_pixels_sampled,
             background |-> "white"]

\* lines 59-133: the body of the loop for a page that document[page_index]
\* gave: page.render, _measure_ink_ratio and the decision.
RenderPageDecision(pg, page_index, p) ==
    LET effective_background == "white"
        diagnostics == MeasureInkRatio(pg.bitmap, p.sample,
                                       effective_background,
                                       p.white_threshold, p.center_margin)
        ink_ratio == diagnostics.ink_ratio
        is_empty == ink_ratio.num * 1000 < p.ink_threshold * ink_ratio.den
    IN IF ~pg.renders \/ diagnostics.raised THEN RenderFailed(page_index)
       ELSE [page_index |-> page_index,
             is_empty |-> is_empty,
             reason |-> IF is_empty THEN "ink_below_threshold"
                        ELSE "ink_above_threshold",
             ink_ratio |-> Some(ink_ratio),
             pixel_count |-> diagnostics.total_pixels_sampled,
             background |-> effective_background]

-----------------------------------------------------------------------------
(* Bounded bitmaps, pages and arguments *)

MaxWidth == 3
MaxRenderPages == 2

\* A pixel is <<red, green, blue, alpha>>: white, at the threshold of 240,
\* blue just under it, opaque black, transparent black.
Pixels == { <<255, 255, 255, 255>>, <<240, 240, 240, 255>>,
            <<255, 255, 239, 255>>, <<0, 0, 0, 255>>, <<0, 0, 0, 0>> }

\* The bytes of a row-major sequence of pixels: B, G, R and, with four
\* channels, alpha.
RECURSIVE BufferOf(_, _)
BufferOf(pixels, channels) ==
    IF pixels = << >> THEN << >>
    ELSE LET px == Head(pixels)
         IN <<px[3], px[2], px[1]>>
            \o (IF channels >= 4 THEN <<px[4]>> ELSE << >>)
            \o BufferOf(Tail(pixels), channels)

\* The bitmap page.render gives; pixels is what was drawn, for reference.
Bitmap(width, height, channels, pixels) ==
    [width |-> width, height |-> height, stride |-> width * channels,
     n_channels |-> channels, buffer |-> BufferOf(pixels, channels),
     pixels |-> pixels]

\* One row of up to MaxWidth pixels, a column of two pixels, or no row.
Dimensions == { <<w, 1>> : w \in 0..MaxWidth } \cup { <<1, 2>>, <<1, 0>> }

Bitmaps ==
    UNION { { Bitmap(d[1], d[2], 4, px) : px \in [1..(d[1] * d[2]) -> Pixels] }
            : d \in Dimensions }
    \cup
    UNION { { Bitmap(d[1], d[2], 3, px) :
                px \in [1..(d[1] * d[2]) -> Pixels \ {<<0, 0, 0, 0>>}] }
            : d \in Dimensions }

\* A bitmap of two channels, and one whose buffer is a byte short.
BadBitmaps ==
    { [width |-> 1, height |-> 1, stride |-> 2, n_channels |-> 2,
       buffer |-> <<0, 0>>, pixels |-> << >>],
      [width |-> 1, height |-> 1, stride |-> 4, n_channels |-> 4,
       buffer |-> <<0, 0, 0>>, pixels |-> << >>] }

NoBitmap == Bitmap(0, 0, 4, << >>)

RenderPage(loads, renders, bitmap) ==
    [loads |-> loads, renders |-> renders, bitmap |-> bitmap]

\* The pages that cannot be loaded, rendered or measured.
FailingPages ==
    { RenderPage(FALSE, FALSE, NoBitmap), RenderPage(TRUE, FALSE, NoBitmap) }
    \cup { RenderPage(TRUE, TRUE, b) : b \in BadBitmaps }

AllRenderPages ==
    { RenderPage(TRUE, TRUE, b) : b \in Bitmaps } \cup FailingPages

\* A white page, a black page and a page half white, half black.
FewRenderPages ==
    { RenderPage(TRUE, TRUE, Bitmap(1, 1, 4, <<px>>)) :
        px \in { <<255, 255, 255, 255>>, <<0, 0, 0, 255>> } }
    \cup { RenderPage(TRUE, TRUE,
               Bitmap(2, 1, 3, << <<255, 255, 255, 255>>,
                                  <<0, 0, 0, 255>> >>)) }
    \cup FailingPages

RenderParams ==
    [ink_threshold : {0, 500, 1000},
     sample : {"all", "center", "top"},
     background : {"white", "black"},
     white_threshold : {240, 241},
     center_margin : {Fraction(1, 20), Fraction(1, 2)}]

-----------------------------------------------------------------------------
(* SpecRender, SpecBitmap: one call of detect_empty_pages_render.          *)

notRender ==
    <<scanVars, pageVars, fileVars, rewriteVars, pathVars, stampVars,
      callVars>>

\* lines 44-54: pypdfium2 is imported and the document is opened, or not
OpenDocument ==
    /\ render_phase = "call"
    /\ render_phase' \in {"loop", "raised"}
    /\ UNCHANGED <<document, params, rendered, notRender>>

\* line 58: document[page_index] raises, outside the try of line 60
LoadPageFails ==
    /\ render_phase = "loop"
    /\ Len(rendered) < Len(document)
    /\ ~document[Len(rendered) + 1].loads
    /\ render_phase' = "raised"
    /\ rendered' = << >>
    /\ UNCHANGED <<document, params, notRender>>

\* lines 58-133: one iteration of the loop
RenderOnePage ==
    /\ render_phase = "loop"
    /\ Len(rendered) < Len(document)
    /\ document[Len(rendered) + 1].loads
    /\ rendered' = Append(rendered,
                          RenderPageDecision(document[Len(rendered) + 1],
                                             Len(rendered), params))
    /\ UNCHANGED <<render_phase, document, params, notRender>>

\* lines 134-139
ReturnRendered ==
    /\ render_phase = "loop"
    /\ Len(rendered) = Len(document)
    /\ render_phase' = "returned"
    /\ UNCHANGED <<document, params, rendered, notRender>>

RenderNext ==
    \/ OpenDocument
    \/ LoadPageFails
    \/ RenderOnePage
    \/ ReturnRendered

RenderInit ==
    /\ NoScan
    /\ NoPage
    /\ NoCall
    /\ NoFile
    /\ NoRewrite
    /\ NoPath
    /\ NoStamp
    /\ render_phase = "call"
    /\ \E n \in 0..MaxRenderPages : document \in [1..n -> FewRenderPages]
    /\ params \in RenderParams
    /\ rendered = << >>

SpecRender == RenderInit /\ [][RenderNext]_vars

\* A document of one page, over every bitmap.
BitmapInit ==
    /\ NoScan
    /\ NoPage
    /\ NoCall
    /\ NoFile
    /\ NoRewrite
    /\ NoPath
    /\ NoStamp
    /\ render_phase = "call"
    /\ document \in [1..1 -> AllRenderPages]
    /\ params \in RenderParams
    /\ rendered = << >>

SpecBitmap == BitmapInit /\ [][RenderNext]_vars

-----------------------------------------------------------------------------
(* Claims on the render detector *)

\* The page of decision i could be rendered and measured.
Measurable(i) ==
    /\ document[i].renders
    /\ document[i].bitmap \in Bitmaps
    /\ params.sample \in {"all", "center"}

\* The pixels of a bitmap inside the sample box, as <<x, y>> from <<0, 0>>.
SampledPixels(b) ==
    LET bounds == SampleBounds(b.width, b.height, params.sample,
                               params.center_margin)
    IN (bounds[1]..(bounds[2] - 1)) \X (bounds[3]..(bounds[4] - 1))

\* The pixels among them that are not background: not transparent, and
\* with a colour component under white_threshold.
InkPixels(b) ==
    { c \in SampledPixels(b) :
        LET px == b.pixels[c[2] * b.width + c[1] + 1]
        IN /\ ~(b.n_channels >= 4 /\ px[4] = 0)
           /\ \E k \in 1..3 : px[k] < params.white_threshold }

\* C11: for every page that is rendered and measured, ink_ratio is the
\* number of sampled pixels that are not background (alpha 0, or R, G and B
\* all at least white_threshold) over the number of sampled pixels, and is 0
\* with no pixel sampled for a sample box without area; the page is empty
\* iff ink_ratio < ink_threshold, strictly, with reason ink_below_threshold
\* when empty and ink_above_threshold otherwise.
C11_InkRatioDecides ==
    \A i \in 1..Len(rendered) :
        Measurable(i) =>
            LET b == document[i].bitmap
                ink == Cardinality(InkPixels(b))
                total == Cardinality(SampledPixels(b))
                d == rendered[i]
                below == IF total = 0 THEN 0 < params.ink_threshold
                         ELSE ink * 1000 < params.ink_threshold * total
            IN /\ ~IsNone(d.ink_ratio)
               /\ d.pixel_count = total
               /\ IF total = 0 THEN The(d.ink_ratio).num = 0
                  ELSE The(d.ink_ratio).num * total =
                           ink * The(d.ink_ratio).den
               /\ d.is_empty = below
               /\ d.reason = IF below THEN "ink_below_threshold"
                             ELSE "ink_above_threshold"

\* C11 witness: of a transparent black pixel and an opaque black one, one is
\* ink; the ratio of one half is not under a threshold of one half.
C11_Witness ==
    /\ render_phase = "returned"
    /\ Len(rendered) = 1
    /\ document[1].bitmap =
           Bitmap(2, 1, 4, << <<0, 0, 0, 0>>, <<0, 0, 0, 255>> >>)
    /\ document[1].renders
    /\ params.sample = "all"
    /\ params.ink_threshold = 500
    /\ rendered[1].ink_ratio = Some(Fraction(1, 2))
    /\ ~rendered[1].is_empty
    /\ rendered[1].reason = "ink_above_threshold"

\* Rasterizing or measuring the page of decision i fails.
RenderFails(i) ==
    \/ ~document[i].renders
    \/ document[i].bitmap \in BadBitmaps
    \/ params.sample \notin {"all", "center"}

C13_NonWhiteBackgroundIsFatal ==
    params.background # "white" =>
        /\ render_phase # "returned"
        /\ rendered = << >>

-----------------------------------------------------------------------------
(* rewrite.py: outlines                                                    *)
(*                                                                         *)
(* reader.outline is a list whose items are outline entries and lists: the *)
(* list that follows an entry holds the entry's children.  An entry is     *)
(* [title, dest, raises]: dest is what get_destination_page_number gives   *)
(* (None, or << page index >>), raises says that reading the entry raises. *)
(* The outline of the writer is the sequence of the items added to it;     *)
(* the parent of an item is the position of another item, 0 for the root,  *)
(* its page_number is << the page index >>, or None for a cloned item      *)
(* without destination.                                                    *)

OutlineEntry(title, dest, raises) ==
    [kind |-> "entry", title |-> title, dest |-> dest, raises |-> raises,
     items |-> << >>]

OutlineList(items) ==
    [kind |-> "list", title |-> 0, dest |-> None, raises |-> FALSE,
     items |-> items]

\* line 47: {old_index: new_index for new_index, old_index in enumerate(...)}
PageIndexMap(keep_list) ==
    [old \in { keep_list[i] : i \in 1..Len(keep_list) } |->
        CHOOSE new \in 0..(Len(keep_list) - 1) :
            /\ keep_list[new + 1] = old
            /\ \A other \in (new + 1)..(Len(keep_list) - 1) :
                  keep_list[other + 1] # old]

\* What a call of _copy_outline_entries has done so far: the outline of the
\* writer, the two counters, and whether an exception is on its way up.
CopyState(items, copied, dropped, raised) ==
    [items |-> items, copied |-> copied, dropped |-> dropped,
     raised |-> raised]

\* Mutant of lines 201-209: the item is added under the root.
AddOutlineItemAtRoot(w, entry, page_number, parent) ==
    [w EXCEPT !.items = Append(@, [title |-> entry.title,
                                   page_number |-> Some(page_number),
                                   parent |-> 0]),
              !.copied = @ + 1]

\* Mutant of lines 201-209: the item keeps the page index of the source.
AddOutlineItemUnmapped(w, entry, page_number, parent) ==
    [w EXCEPT !.items = Append(@, [title |-> entry.title,
                                   page_number |-> entry.dest,
                                   parent |-> parent]),
              !.copied = @ + 1]

\* Lines 201-209: writer.add_outline_item, and copied += 1
AddOutlineItem(w, entry, page_number, parent) ==
    [w EXCEPT !.items = Append(@, [title |-> entry.title,
                                   page_number |-> Some(page_number),
                                   parent |-> parent]),
              !.copied = @ + 1]

\* _copy_outline_entries, the loop of line 183 from position index on
RECURSIVE CopyOutlineEntriesFrom(_, _, _, _, _)
CopyOutlineEntriesFrom(entries, index, parent, page_index_map, w) ==
    IF w.raised \/ index > Len(entries) THEN w
    ELSE
      LET entry == entries[index]
      IN IF entry.kind = "list"
         THEN CopyOutlineEntriesFrom(
                  entries, index + 1, parent, page_index_map,
                  CopyOutlineEntriesFrom(entry.items, 1, parent,
                                         page_index_map, w))
         ELSE
           LET has_children == /\ index + 1 <= Len(entries)
                               /\ entries[index + 1].kind = "list"
               retained == /\ ~IsNone(entry.dest)
                           /\ The(entry.dest) \in DOMAIN page_index_map
               added == IF retained
                        THEN AddOutlineItem(w, entry,
                                            page_index_map[The(entry.dest)],
                                            parent)
                        ELSE [w EXCEPT !.dropped = @ + 1]
               copied_parent == IF retained THEN Len(added.items) ELSE parent
               after_children ==
                   IF has_children
                   THEN CopyOutlineEntriesFrom(entries[index + 1].items, 1,
                                               copied_parent, page_index_map,
                                               added)
                   ELSE added
           IN IF entry.raises THEN [w EXCEPT !.raised = TRUE]
              ELSE CopyOutlineEntriesFrom(
                       entries, index + (IF has_children THEN 2 ELSE 1),
                       parent, page_index_map, after_children)

\* _copy_outline_entries(entries, parent=None, ...) on a writer whose
\* outline is items
CopyOutlineEntries(entries, page_index_map, items) ==
    CopyOutlineEntriesFrom(entries, 1, 0, page_index_map,
                           CopyState(items, 0, 0, FALSE))

Warning(about, text) == [about |-> about, text |-> text]

\* Mutant of _copy_outlines: dropped says whether an item was dropped.
CopyOutlinesFlaggingDropped(src, page_index_map, items) ==
    IF src.outline_raises
    THEN [items |-> items, copied |-> 0, dropped |-> 0,
          warnings |-> <<Warning("outlines", "outline read error")>>]
    ELSE IF src.outline = << >>
    THEN [items |-> items, copied |-> 0, dropped |-> 0, warnings |-> << >>]
    ELSE LET w == CopyOutlineEntries(src.outline, page_index_map, items)
         IN IF w.raised
            THEN [items |-> w.items, copied |-> 0, dropped |-> 0,
                  warnings |->
                      <<Warning("outlines", "outline copy error")>>]
            ELSE [items |-> w.items, copied |-> w.copied,
                  dropped |-> IF w.dropped > 0 THEN 1 ELSE 0,
                  warnings |->
                      IF w.dropped > 0
                      THEN <<Warning("outlines", "dropped outline items")>>
                      ELSE << >>]

\* _copy_outlines: the outline of the writer, the counters and the warnings
CopyOutlines(src, page_index_map, items) ==
    IF src.outline_raises
    THEN [items |-> items, copied |-> 0, dropped |-> 0,
          warnings |-> <<Warning("outlines", "outline read error")>>]
    ELSE IF src.outline = << >>
    THEN [items |-> items, copied |-> 0, dropped |-> 0, warnings |-> << >>]
    ELSE LET w == CopyOutlineEntries(src.outline, page_index_map, items)
         IN IF w.raised
            THEN [items |-> w.items, copied |-> 0, dropped |-> 0,
                  warnings |->
                      <<Warning("outlines", "outline copy error")>>]
            ELSE [items |-> w.items, copied |-> w.copied,
                  dropped |-> w.dropped,
                  warnings |->
                      IF w.dropped > 0
                      THEN <<Warning("outlines", "dropped outline items")>>
                      ELSE << >>]

\* writer.clone_document_from_reader, for the outline: every entry is in
\* the clone, under the clone of its parent.
RECURSIVE CloneOutlineFrom(_, _, _, _)
CloneOutlineFrom(entries, index, parent, items) ==
    IF index > Len(entries) THEN items
    ELSE
      LET entry == entries[index]
      IN IF entry.kind = "list"
         THEN CloneOutlineFrom(entries, index + 1, parent,
                               CloneOutlineFrom(entry.items, 1, parent, items))
         ELSE
           LET has_children == /\ index + 1 <= Len(entries)
                               /\ entries[index + 1].kind = "list"
               added == Append(items, [title |-> entry.title,
                                       page_number |-> entry.dest,
                                       parent |-> parent])
               after_children ==
                   IF has_children
                   THEN CloneOutlineFrom(entries[index + 1].items, 1,
                                         Len(added), added)
                   ELSE added
           IN CloneOutlineFrom(entries,
                               index + (IF has_children THEN 2 ELSE 1),
                               parent, after_children)

Range(n) == [i \in 1..n |-> i - 1]

RewriteRaises ==
    [raised |-> TRUE, written |-> None, pages_output |-> 0,
     outlines_copied |-> 0, outlines_dropped |-> 0, warnings |-> << >>]

\* Mutant of rewrite_pdf: the document is never cloned.
RewritePdfAlwaysCopying(src, args, env) ==
    LET keep_list == args.pages_to_keep
        copy == CopyOutlines(src, PageIndexMap(keep_list), << >>)
    IN IF args.bookmark_policy # "drop" THEN RewriteRaises
       ELSE IF ~args.edited_name THEN RewriteRaises
       ELSE IF \E i \in 1..Len(keep_list) : keep_list[i] >= src.pages
       THEN RewriteRaises
       ELSE IF args.stamp /\ env.stamp_raises THEN RewriteRaises
       ELSE IF env.write_raises THEN RewriteRaises
       ELSE [raised |-> FALSE,
             written |-> Some([pages |-> keep_list, outline |-> copy.items]),
             pages_output |-> Len(keep_list),
             outlines_copied |-> copy.copied,
             outlines_dropped |-> copy.dropped,
             warnings |-> copy.warnings]

\* rewrite_pdf, lines 18-90.  src is the document at input_path, env says
\* which of the stamper and the write of the output raise.
RewritePdf(src, args, env) ==
    LET keep_list == args.pages_to_keep
        full_keep == keep_list = Range(src.pages)
        copy == CopyOutlines(src, PageIndexMap(keep_list), << >>)
        named == IF src.named_destinations > 0
                 THEN <<Warning("named_destinations", "dropped")>>
                 ELSE << >>
        pages == IF full_keep THEN Range(src.pages) ELSE keep_list
        outline == IF full_keep
                   THEN CloneOutlineFrom(src.outline, 1, 0, << >>)
                   ELSE copy.items
    IN IF args.bookmark_policy # "drop" THEN RewriteRaises
       ELSE IF ~args.edited_name THEN RewriteRaises
       ELSE IF \E i \in 1..Len(keep_list) : keep_list[i] >= src.pages
       THEN RewriteRaises
       ELSE IF args.stamp /\ env.stamp_raises THEN RewriteRaises
       ELSE IF env.write_raises THEN RewriteRaises
       ELSE [raised |-> FALSE,
             written |-> Some([pages |-> pages, outline |-> outline]),
             pages_output |-> IF full_keep THEN src.pages
                              ELSE Len(keep_list),
             outlines_copied |-> IF full_keep THEN 0 ELSE copy.copied,
             outlines_dropped |-> IF full_keep THEN 0 ELSE copy.dropped,
             warnings |-> IF full_keep THEN << >>
                          ELSE copy.warnings \o named]

-----------------------------------------------------------------------------
(* Bounded documents *)

MaxSourcePages == 2

OutlineSizes == 0..3
OutlineDepths == 0..2

\* What reading an entry gives: no destination, a page of the document, or
\* an exception.
EntryKinds ==
    { OutlineEntry(0, None, FALSE), OutlineEntry(0, None, TRUE) }
    \cup { OutlineEntry(0, Some(n), FALSE) : n \in 0..(MaxSourcePages - 1) }

\* The lists of k entries in all, nested at most d deep.
RECURSIVE ListsOf(_, _)
RECURSIVE ItemsOf(_, _)
ListsOf(k, d) ==
    IF k = 0 THEN { << >> }
    ELSE UNION { { <<item>> \o rest :
                     item \in ItemsOf(j, d), rest \in ListsOf(k - j, d) }
                 : j \in 1..k }

ItemsOf(j, d) ==
    (IF j = 1 THEN EntryKinds ELSE {})
    \cup (IF d > 0 THEN { OutlineList(l) : l \in ListsOf(j, d - 1) } ELSE {})

\* The list with its entries titled 1, 2, ... in the order of the outline.
RECURSIVE TitledFrom(_, _)
TitledFrom(items, next) ==
    IF items = << >> THEN [list |-> << >>, next |-> next]
    ELSE LET h == Head(items)
             inner == TitledFrom(h.items, next)
             first == IF h.kind = "entry"
                      THEN [item |-> [h EXCEPT !.title = next],
                            next |-> next + 1]
                      ELSE [item |-> OutlineList(inner.list),
                            next |-> inner.next]
             rest == TitledFrom(Tail(items), first.next)
         IN [list |-> <<first.item>> \o rest.list, next |-> rest.next]

\* The outlines of the given numbers of entries.
OutlinesOfSize(sizes) ==
    { TitledFrom(l, 1).list :
        l \in UNION { ListsOf(k, d) : k \in sizes, d \in OutlineDepths } }

\* The entries of a list, at every depth.
RECURSIVE EntriesOf(_)
EntriesOf(items) ==
    IF items = << >> THEN {}
    ELSE LET h == Head(items)
         IN (IF h.kind = "entry" THEN {h} ELSE EntriesOf(h.items))
            \cup EntriesOf(Tail(items))

\* The outlines whose destinations are pages of a document of n pages.
OutlinesFor(n) ==
    { o \in OutlinesOfSize(OutlineSizes) :
        \A e \in EntriesOf(o) : IsNone(e.dest) \/ The(e.dest) < n }

\* An entry on the first page with a child on the last, followed by an
\* entry that cannot be read, for a document of n >= 1 pages.
FewOutlines(n) ==
    { << >>,
      <<OutlineEntry(1, Some(0), FALSE),
        OutlineList(<<OutlineEntry(2, Some(n - 1), FALSE)>>)>>,
      <<OutlineEntry(1, Some(0), FALSE), OutlineEntry(2, None, TRUE)>> }

Source(pages, outline, outline_raises, named_destinations) ==
    [pages |-> pages, outline |-> outline, outline_raises |-> outline_raises,
     named_destinations |-> named_destinations]

\* The documents with every outline, and those with every way of failing.
SourcesOf(page_counts) ==
    UNION { { Source(n, o, FALSE, 0) : o \in OutlinesFor(n) }
            : n \in page_counts }

FewSources ==
    { Source(0, << >>, FALSE, 0) }
    \cup UNION { { Source(n, o, r, d) :
                     o \in FewOutlines(n), r \in BOOLEAN, d \in {0, 1} }
                 : n \in 1..MaxSourcePages }

\* The increasing lists of page indexes of a document of n pages.
KeepLists(n) ==
    { SelectSeq(Range(n), LAMBDA i : i \in kept) : kept \in SUBSET (0..(n - 1)) }

RewriteArgs(pages_to_keep, bookmark_policy, edited_name, stamp) ==
    [pages_to_keep |-> pages_to_keep, bookmark_policy |-> bookmark_policy,
     edited_name |-> edited_name, stamp |-> stamp]

RewriteEnvs == [stamp_raises : BOOLEAN, write_raises : BOOLEAN]

-----------------------------------------------------------------------------
(* SpecRewrite: one call of rewrite_pdf.                                   *)

notRewrite ==
    <<scanVars, pageVars, fileVars, renderVars, pathVars, stampVars,
      callVars>>

CallRewritePdf ==
    /\ rewrite_phase = "call"
    /\ \E env \in RewriteEnvs :
          LET r == RewritePdf(source, rewrite_args, env)
          IN /\ rewrite_phase' = IF r.raised THEN "raised" ELSE "returned"
             /\ written' = r.written
             /\ rewrite_result' = IF r.raised THEN None ELSE Some(r)
    /\ UNCHANGED <<source, rewrite_args, notRewrite>>

RewriteNext == CallRewritePdf

RewriteInit ==
    /\ NoScan
    /\ NoPage
    /\ NoCall
    /\ NoFile
    /\ NoRender
    /\ NoPath
    /\ NoStamp
    /\ rewrite_phase = "call"
    /\ \/ /\ source \in SourcesOf(0..MaxSourcePages)
          /\ \E k \in KeepLists(source.pages) :
                rewrite_args = RewriteArgs(k, "drop", TRUE, FALSE)
       \/ /\ source \in FewSources
          /\ \E k \in KeepLists(source.pages) :
                \E policy \in {"drop", "keep"}, name, stamp \in BOOLEAN :
                   rewrite_args = RewriteArgs(k, policy, name, stamp)
    /\ written = None
    /\ rewrite_result = None

SpecRewrite == RewriteInit /\ [][RewriteNext]_vars

-----------------------------------------------------------------------------
(* Claims on rewrite_pdf *)

\* The entries of an outline, each with its ancestors, the nearest last: a
\* list that follows an entry holds the children of that entry.
RECURSIVE Family(_, _, _)
Family(items, index, ancestors) ==
    IF index > Len(items) THEN {}
    ELSE LET e == items[index]
         IN (IF e.kind = "entry"
             THEN { [entry |-> e, ancestors |-> ancestors] }
             ELSE IF index > 1 /\ items[index - 1].kind = "entry"
             THEN Family(e.items, 1, Append(ancestors, items[index - 1]))
             ELSE Family(e.items, 1, ancestors))
            \cup Family(items, index + 1, ancestors)

SourceFamily == Family(source.outline, 1, << >>)

KeepList == rewrite_args.pages_to_keep
Kept == { KeepList[i] : i \in 1..Len(KeepList) }

\* The destination of the entry is a page that the rewrite keeps.
Retained(e) == ~IsNone(e.dest) /\ The(e.dest) \in Kept

\* The call returned, having removed at least one page.
RemovedPages ==
    /\ rewrite_phase = "returned"
    /\ Len(KeepList) < source.pages

\* Reading the outline and its entries raises nothing.
OutlineReadable ==
    /\ ~source.outline_raises
    /\ \A f \in SourceFamily : ~f.entry.raises

Output == The(written)
Result == The(rewrite_result)

\* C15: a call with pages_to_keep = [0..n-1] that returns has written the
\* n pages and as many outline items as the source has, and gives
\* pages_output = n.
C15_FullKeepRoundTrip ==
    (rewrite_phase = "returned" /\ KeepList = Range(source.pages)) =>
        /\ Output.pages = Range(source.pages)
        /\ Len(Output.outline) = Cardinality(SourceFamily)
        /\ Result.pages_output = source.pages

\* C15 witness: both pages kept, and two entries of which one has no
\* destination.
C15_Witness ==
    /\ rewrite_phase = "returned"
    /\ source.pages = 2
    /\ KeepList = <<0, 1>>
    /\ source.outline =
           <<OutlineEntry(1, None, FALSE), OutlineEntry(2, Some(1), FALSE)>>
    /\ Len(Output.outline) = 2

\* C16: when a rewrite that removes a page has copied the outline, the
\* bookmarks of the output are the entries of the source whose destination
\* page is kept, each at the position of that page in the kept list; every
\* other entry is counted once in outlines_dropped.
C16_BookmarksRemapped ==
    (RemovedPages /\ OutlineReadable) =>
        LET kept == { f.entry : f \in { g \in SourceFamily : Retained(g.entry) } }
            items == Output.outline
        IN /\ Len(items) = Cardinality(kept)
           /\ { items[i].title : i \in 1..Len(items) } =
                  { e.title : e \in kept }
           /\ \A i \in 1..Len(items) : \A e \in kept :
                  e.title = items[i].title =>
                      /\ ~IsNone(items[i].page_number)
                      /\ The(items[i].page_number) \in 0..(Len(KeepList) - 1)
                      /\ KeepList[The(items[i].page_number) + 1] = The(e.dest)
           /\ Result.outlines_copied = Cardinality(kept)
           /\ Result.outlines_dropped =
                  Cardinality(SourceFamily) - Cardinality(kept)

\* C16 witness: the first page is removed; of an entry on it and an entry
\* on the second page, the second is the only bookmark, now on page 0.
C16_Witness ==
    /\ RemovedPages
    /\ KeepList = <<1>>
    /\ source.outline =
           <<OutlineEntry(1, Some(0), FALSE), OutlineEntry(2, Some(1), FALSE)>>
    /\ Output.outline = <<[title |-> 2, page_number |-> Some(0), parent |-> 0]>>
    /\ Result.outlines_dropped = 1

\* C17: when the outline has been copied, every entry whose page is kept
\* is in the output whatever became of its ancestors; its parent is the
\* copy of its nearest ancestor whose page is kept, or the root when there
\* is none; the bookmarks are in the order of the source.
C17_SubtreesReparented ==
    (/\ rewrite_phase = "returned"
     /\ KeepList # Range(source.pages)
     /\ OutlineReadable) =>
        LET items == Output.outline
            ItemOf(e) == CHOOSE i \in 1..Len(items) : items[i].title = e.title
        IN /\ \A f \in SourceFamily :
                 Retained(f.entry) =>
                    /\ \E i \in 1..Len(items) : items[i].title = f.entry.title
                    /\ LET survivors ==
                               SelectSeq(f.ancestors, LAMBDA a : Retained(a))
                       IN items[ItemOf(f.entry)].parent =
                             IF survivors = << >> THEN 0
                             ELSE ItemOf(survivors[Len(survivors)])
           /\ \A i, j \in 1..Len(items) :
                 i < j => items[i].title < items[j].title

\* C17 witness: an entry on a kept page, its child on the removed page and
\* its grandchild on the kept page: the grandchild is under the entry.
C17_Witness ==
    /\ rewrite_phase = "returned"
    /\ KeepList = <<1>>
    /\ source.outline =
           <<OutlineEntry(1, Some(1), FALSE),
             OutlineList(<<OutlineEntry(2, Some(0), FALSE),
                           OutlineList(<<OutlineEntry(3, Some(1), FALSE)>>)>>)>>
    /\ Output.outline =
           <<[title |-> 1, page_number |-> Some(0), parent |-> 0],
             [title |-> 3, page_number |-> Some(0), parent |-> 1]>>

\* The number of entries of an outline tree, nested lists included.
RECURSIVE TreeSize(_)
TreeSize(items) ==
    IF items = << >> THEN 0
    ELSE (IF Head(items).kind = "entry" THEN 1 ELSE TreeSize(Head(items).items))
         + TreeSize(Tail(items))

\* C29: when a rewrite that removes pages has copied the outline without an
\* exception, outlines_copied + outlines_dropped is the number of entries of
\* the source outline tree, and outlines_copied is the number of outline
\* items of the output.
C29_OutlineAccounting ==
    (RemovedPages /\ OutlineReadable) =>
        /\ Result.outlines_copied + Result.outlines_dropped =
               TreeSize(source.outline)
        /\ Result.outlines_copied = Len(Output.outline)

\* C29 witness: of three entries of a source whose first page is removed,
\* one was copied and two were dropped.
C29_Witness ==
    /\ RemovedPages
    /\ OutlineReadable
    /\ KeepList = <<1>>
    /\ TreeSize(source.outline) = 3
    /\ Result.outlines_copied = 1
    /\ Result.outlines_dropped = 2
    /\ Len(Output.outline) = 1

\* C18: when reading or copying the outline raised in a rewrite that
\* returned, the pages are written, the output has no outline item and one
\* warning about outlines is recorded.
C18_OutlineErrorDropsAllOutlines ==
    (/\ rewrite_phase = "returned"
     /\ KeepList # Range(source.pages)
     /\ ~OutlineReadable) =>
        /\ Output.pages = KeepList
        /\ Output.outline = << >>
        /\ Cardinality({ i \in 1..Len(Result.warnings) :
                           Result.warnings[i].about = "outlines" }) = 1

-----------------------------------------------------------------------------
(* Spec: process_pdf on one file.  The reader and the two detectors are   *)
(* the collaborators: each step draws what they return or raise.  The     *)
(* file is the document source, and the rewrite is RewritePdf.             *)

Configs ==
    [dry_run : BOOLEAN, write_when_unchanged : BOOLEAN,
     strict_xref : BOOLEAN, stamp_page_numbers : BOOLEAN]

\* An entry of the errors list: its label and the text of the exception.
Error(label, text) == [label |-> label, text |-> text]

\* lines 74-110: the except clause around reading and detection
Failed(message) ==
    /\ errors' = Append(errors,
                        IF message = "encrypted" THEN Error("encrypted", "")
                        ELSE Error("read_error", message))
    /\ pages_original' = 0
    /\ decisions' = << >>
    /\ output_path' = None
    /\ status' = "failed"
    /\ phase' = "done"

\* Mutant of pages_to_keep: the empty pages are the ones kept.
PagesToKeepEmpty(ds) ==
    LET kept == SelectSeq(ds, LAMBDA d : d.is_empty)
    IN [i \in 1..Len(kept) |-> kept[i].page_index]

\* lines 162-166
PagesToKeep(ds) ==
    LET kept == SelectSeq(ds, LAMBDA d : ~d.is_empty)
    IN [i \in 1..Len(kept) |-> kept[i].page_index]

PagesRemoved == pages_original - Len(PagesToKeep(decisions))

\* lines 45-49: PdfReader(...), is_encrypted, len(reader.pages)
OpenReader ==
    /\ phase = "open"
    /\ \/ /\ \E message \in {"encrypted", "unreadable"} : Failed(message)
          /\ UNCHANGED <<structural_decisions, render_decisions>>
       \/ /\ pages_original' = source.pages
          /\ phase' = "detect"
          /\ UNCHANGED <<structural_decisions, render_decisions, decisions,
                         errors, output_path, status>>
    /\ UNCHANGED <<restVars, scanVars, pageVars, config, backend, mode, rewritten>>

\* lines 52-56: detect_page_decisions gives one decision per page of the
\* reader, or the reader raises while its pages are read.
DetectStructural ==
    /\ phase = "detect"
    /\ \/ /\ Failed("unreadable")
          /\ UNCHANGED <<structural_decisions, render_decisions>>
       \/ /\ structural_decisions' \in
                DecisionLists(StructuralVerdicts, pages_original)
          /\ phase' = IF mode \in {"render", "both"} THEN "render"
                      ELSE "combine"
          /\ UNCHANGED <<pages_original, render_decisions, decisions, errors,
                         output_path, status>>
    /\ UNCHANGED <<restVars, scanVars, pageVars, config, backend, mode, rewritten>>

\* lines 57-67: detect_empty_pages_render gives one decision per page that
\* pdfium finds in the file, or raises.
DetectRender ==
    /\ phase = "render"
    /\ \/ /\ ~backend
          /\ Failed("pypdfium2")
          /\ UNCHANGED <<structural_decisions, render_decisions>>
       \/ /\ backend
          /\ Failed("render")
          /\ UNCHANGED <<structural_decisions, render_decisions>>
       \/ /\ backend
          /\ \E n \in 0..MaxPages :
                \E l \in DecisionLists(RenderVerdicts, n) :
                   render_decisions' = Some(l)
          /\ phase' = "combine"
          /\ UNCHANGED <<pages_original, structural_decisions, decisions,
                         errors, output_path, status>>
    /\ UNCHANGED <<restVars, scanVars, pageVars, config, backend, mode, rewritten>>

\* lines 68-72
Combine ==
    /\ phase = "combine"
    /\ LET r == CombineDecisions(structural_decisions, render_decisions, mode)
       IN IF r.raised # ""
          THEN Failed(r.raised)
          ELSE /\ decisions' = r.decisions
               /\ phase' = "xref"
               /\ UNCHANGED <<pages_original, errors, output_path, status>>
    /\ UNCHANGED <<restVars, scanVars, pageVars, config, backend, mode,
                   structural_decisions, render_decisions, rewritten>>

\* lines 132-160: with strict_xref, a captured pypdf warning fails the file
CheckXref ==
    /\ phase = "xref"
    /\ \E events \in BOOLEAN :
          IF config.strict_xref /\ events
          THEN /\ errors' = Append(errors, Error("pypdf_xref_warning", ""))
               /\ status' = "failed"
               /\ phase' = "done"
          ELSE /\ phase' = "plan"
               /\ UNCHANGED <<errors, status>>
    /\ UNCHANGED <<restVars, scanVars, pageVars, config, backend, mode, pages_original,
                   structural_decisions, render_decisions, decisions,
                   output_path, rewritten>>

\* lines 162-200: the output path, and the backend that stamping needs
PlanOutput ==
    /\ phase = "plan"
    /\ LET path == IF PagesRemoved > 0 \/ config.write_when_unchanged
                   THEN Some("edited.pdf") ELSE None
       IN IF config.stamp_page_numbers /\ ~IsNone(path) /\ ~backend
          THEN /\ errors' =
                    Append(errors, Error("stamping_requires_pypdfium2", ""))
               /\ output_path' = None
               /\ status' = "failed"
               /\ phase' = "done"
          ELSE /\ output_path' = path
               /\ phase' = "write"
               /\ UNCHANGED <<errors, status>>
    /\ UNCHANGED <<restVars, scanVars, pageVars, config, backend, mode, pages_original,
                   structural_decisions, render_decisions, decisions,
                   rewritten>>

\* lines 203-208: the branches that write nothing
WritesNothing ==
    \/ config.dry_run
    \/ PagesRemoved = 0 /\ ~config.write_when_unchanged
    \/ IsNone(output_path)

FinishUnwritten ==
    /\ phase = "write"
    /\ WritesNothing
    /\ status' = IF config.dry_run /\ PagesRemoved > 0 THEN "dry_run"
                 ELSE "unchanged"
    /\ phase' = "done"
    /\ UNCHANGED <<restVars, scanVars, pageVars, config, backend, mode, pages_original,
                   structural_decisions, render_decisions, decisions, errors,
                   output_path, rewritten>>

\* lines 209-233: rewrite_pdf is called, and returns or raises
Rewrite ==
    /\ phase = "write"
    /\ ~WritesNothing
    /\ LET args == RewriteArgs(IF PagesRemoved > 0 THEN PagesToKeep(decisions)
                               ELSE Range(pages_original),
                               "drop", TRUE, config.stamp_page_numbers)
       IN \E env \in RewriteEnvs :
             LET r == RewritePdf(source, args, env)
             IN /\ rewritten' = Some(args.pages_to_keep)
                /\ rewrite_args' = args
                /\ written' = r.written
                /\ rewrite_result' = IF r.raised THEN None ELSE Some(r)
                /\ rewrite_phase' = IF r.raised THEN "raised" ELSE "returned"
                /\ IF r.raised
                   THEN /\ errors' =
                             Append(errors, Error("rewrite_error", "rewrite"))
                        /\ status' = "failed"
                        /\ output_path' = None
                   ELSE /\ status' = IF PagesRemoved > 0 THEN "edited"
                                     ELSE "copied"
                        /\ UNCHANGED <<errors, output_path>>
    /\ phase' = "done"
    /\ UNCHANGED <<renderVars, pathVars, stampVars, callVars, source, scanVars,
                   pageVars, config, backend,
                   mode, pages_original, structural_decisions,
                   render_decisions, decisions>>

\* lines 80-95, 143-145, 168, 184-185, 220, 233: pages_output of the result
PagesOutput ==
    IF status = "failed" THEN 0
    ELSE IF rewrite_phase = "returned" THEN The(rewrite_result).pages_output
    ELSE IF PagesRemoved # 0 THEN Len(PagesToKeep(decisions))
    ELSE pages_original

Init ==
    /\ NoScan
    /\ NoPage
    /\ NoCall
    /\ NoRender
    /\ NoPath
    /\ NoStamp
    /\ rewrite_phase = "idle"
    /\ source \in FewSources
    /\ rewrite_args = << >>
    /\ written = None
    /\ rewrite_result = None
    /\ phase = "open"
    /\ config \in Configs
    /\ backend \in BOOLEAN
    /\ mode \in Modes
    /\ pages_original = 0
    /\ structural_decisions = << >>
    /\ render_decisions = None
    /\ decisions = << >>
    /\ errors = << >>
    /\ output_path = None
    /\ rewritten = None
    /\ status = ""

Next ==
    \/ OpenReader
    \/ DetectStructural
    \/ DetectRender
    \/ Combine
    \/ CheckXref
    \/ PlanOutput
    \/ FinishUnwritten
    \/ Rewrite

Spec == Init /\ [][Next]_vars

-----------------------------------------------------------------------------
(* Claims on the combiner and on process_pdf *)

\* C9: for aligned structural and render decisions the combiner returns one
\* decision per page with the page_index of the structural decision; in mode
\* both a page is empty iff either detector said so, with reason both_empty,
\* structural_empty, render_empty or non_empty after which of them did; in
\* mode structural the verdict is a function of the structural decision
\* alone, and in mode render of the render decision alone.
C9_CombinerLaw ==
    (/\ phase \in {"returned", "raised"}
     /\ ~IsNone(render_decisions)
     /\ Len(The(render_decisions)) = Len(structural_decisions)) =>
        /\ phase = "returned"
        /\ Len(decisions) = Len(structural_decisions)
        /\ \A i \in 1..Len(decisions) :
              LET s == structural_decisions[i]
                  r == The(render_decisions)[i]
                  d == decisions[i]
              IN /\ d.page_index = s.page_index
                 /\ mode = "both" =>
                       /\ d.is_empty = (s.is_empty \/ r.is_empty)
                       /\ d.reason =
                            CASE s.is_empty /\ r.is_empty -> "both_empty"
                              [] s.is_empty /\ ~r.is_empty -> "structural_empty"
                              [] ~s.is_empty /\ r.is_empty -> "render_empty"
                              [] OTHER -> "non_empty"
                 /\ mode = "structural" =>
                       /\ d.is_empty = s.is_empty
                       /\ d.reason = IF s.is_empty THEN "structural_empty"
                                     ELSE "non_empty"
                 /\ mode = "render" =>
                       /\ d.is_empty = r.is_empty
                       /\ d.reason = IF r.is_empty THEN "render_empty"
                                     ELSE "non_empty"

\* C9 witness: in mode both, a page only the structural detector found
\* empty and a page only the render detector found empty are both empty.
C9_Witness ==
    /\ phase = "returned"
    /\ mode = "both"
    /\ Len(structural_decisions) = 2
    /\ structural_decisions[1].is_empty
    /\ ~structural_decisions[2].is_empty
    /\ ~IsNone(render_decisions)
    /\ Len(The(render_decisions)) = 2
    /\ ~The(render_decisions)[1].is_empty
    /\ The(render_decisions)[2].is_empty
    /\ decisions[1].is_empty /\ decisions[1].reason = "structural_empty"
    /\ decisions[2].is_empty /\ decisions[2].reason = "render_empty"

\* Where process_pdf is once _combine_decisions has been called.
AfterCombine == phase \in {"xref", "plan", "write", "done"}

EmptyPages ==
    { i \in 0..(pages_original - 1) : decisions[i + 1].is_empty }

\* C14: when process_pdf ends with status edited, the run was not a dry
\* run, the written document holds the pages whose decision is not empty,
\* in the order of the file, pages_removed is the number of empty
\* decisions, pages_output is pages_original less pages_removed, and no
\* bookmark of the output belongs to an entry on a removed page.
C14_EditedKeepsNonEmptyPages ==
    (phase = "done" /\ status = "edited") =>
        /\ ~config.dry_run
        /\ Len(decisions) = pages_original
        /\ ~IsNone(written)
        /\ LET pages == The(written).pages
               items == The(written).outline
           IN /\ { pages[i] : i \in 1..Len(pages) } =
                     (0..(pages_original - 1)) \ EmptyPages
              /\ \A i, j \in 1..Len(pages) : i < j => pages[i] < pages[j]
              /\ PagesRemoved = Cardinality(EmptyPages)
              /\ PagesRemoved >= 1
              /\ PagesOutput = pages_original - PagesRemoved
              /\ PagesOutput = Len(pages)
              /\ \A e \in EntriesOf(source.outline) :
                    (~IsNone(e.dest) /\ The(e.dest) \in EmptyPages) =>
                        \A i \in 1..Len(items) : items[i].title # e.title

\* C14 witness: of two pages the first is empty and has a bookmark, whose
\* child is on the second: the output is the second page with the child.
C14_Witness ==
    /\ phase = "done"
    /\ status = "edited"
    /\ pages_original = 2
    /\ decisions[1].is_empty
    /\ ~decisions[2].is_empty
    /\ source.outline =
           <<OutlineEntry(1, Some(0), FALSE),
             OutlineList(<<OutlineEntry(2, Some(1), FALSE)>>)>>
    /\ ~source.outline_raises
    /\ The(written) =
           [pages |-> <<1>>,
            outline |-> <<[title |-> 2, page_number |-> Some(0),
                           parent |-> 0]>>]
    /\ PagesOutput = 1


\* C30: the FileResult of process_pdf has an output_path only when this call
\* wrote an output PDF, that is when status is edited or copied; with status
\* failed, unchanged or dry_run the output_path is null.
C30_OutputPathOnlyWhenWritten ==
    phase = "done" =>
        /\ ~IsNone(output_path) => status \in {"edited", "copied"}
        /\ status \in {"failed", "unchanged", "dry_run"} => IsNone(output_path)

-----------------------------------------------------------------------------
(* processor.py: build_output_path                                         *)
(*                                                                         *)
(* A name of the output directory is [stem, suffix]: suffix None is        *)
(* <stem>.edited.pdf and suffix << n >> is <stem>.edited.<n>.pdf.          *)

MaxSuffix == 4

\* lines 265, 271: out_dir / f"{input_path.stem}.edited[.{suffix}].pdf"
Candidate(stem, n) == [stem |-> stem, suffix |-> n]

\* The stem of input_path, and the stem of another file.
Stem == "input"
OtherStem == "other"

\* The names that the directory may hold before the call.
Names ==
    { Candidate(Stem, None), Candidate(OtherStem, None) }
    \cup { Candidate(Stem, Some(n)) : n \in 1..MaxSuffix }

\* candidate.exists(), lines 266 and 272
Exists(candidate) == candidate \in out_dir.existing

\* lines 273-275
CollisionWarning(candidate) == Warning("output_path", candidate)

PathResult(candidate, warnings) ==
    [candidate |-> candidate, warnings |-> warnings]

\* Mutant of line 277: every other suffix is probed.
NextSuffixSkipping(n) == n + 2

\* line 277
NextSuffix(n) == n + 1

notPath ==
    <<scanVars, pageVars, fileVars, renderVars, rewriteVars, stampVars,
      callVars>>

\* lines 262-269: mkdir raises when the directory cannot be made; the
\* first candidate is returned when nothing has its name.
EnterBuildOutputPath ==
    /\ path_phase = "call"
    /\ IF ~out_dir.usable
       THEN /\ path_phase' = "raised"
            /\ UNCHANGED <<suffix, path_result>>
       ELSE IF ~Exists(Candidate(Stem, None))
       THEN /\ path_phase' = "returned"
            /\ path_result' = Some(PathResult(Candidate(Stem, None), << >>))
            /\ UNCHANGED suffix
       ELSE /\ path_phase' = "probe"
            /\ suffix' = 1
            /\ UNCHANGED path_result
    /\ UNCHANGED <<out_dir, notPath>>

\* lines 270-277: one turn of the loop
ProbeSuffix ==
    /\ path_phase = "probe"
    /\ LET candidate == Candidate(Stem, Some(suffix))
       IN IF ~Exists(candidate)
          THEN /\ path_phase' = "returned"
               /\ path_result' =
                     Some(PathResult(candidate, <<CollisionWarning(candidate)>>))
               /\ UNCHANGED suffix
          ELSE /\ suffix' = NextSuffix(suffix)
               /\ UNCHANGED <<path_phase, path_result>>
    /\ UNCHANGED <<out_dir, notPath>>

PathNext ==
    \/ EnterBuildOutputPath
    \/ ProbeSuffix

PathInit ==
    /\ NoScan
    /\ NoPage
    /\ NoCall
    /\ NoFile
    /\ NoRender
    /\ NoRewrite
    /\ NoStamp
    /\ path_phase = "call"
    /\ out_dir \in [usable : BOOLEAN, existing : SUBSET Names]
    /\ suffix = 0
    /\ path_result = None

\* The call runs on: a step that can be taken is taken.
SpecPath == PathInit /\ [][PathNext]_vars /\ WF_vars(PathNext)

-----------------------------------------------------------------------------
(* Claims on build_output_path *)

\* What a call that returned gave: the name does not exist; it is
\* <stem>.edited.pdf without warning when that did not exist, and else
\* <stem>.edited.<n>.pdf for the least n >= 1 not in use, with one warning.
ReturnedUnusedPath ==
    path_phase = "returned" =>
        LET r == The(path_result)
            plain == Candidate(Stem, None)
        IN /\ r.candidate \notin out_dir.existing
           /\ r.candidate.stem = Stem
           /\ plain \notin out_dir.existing =>
                 /\ r.candidate = plain
                 /\ r.warnings = << >>
           /\ plain \in out_dir.existing =>
                 /\ ~IsNone(r.candidate.suffix)
                 /\ The(r.candidate.suffix) >= 1
                 /\ \A m \in 1..(The(r.candidate.suffix) - 1) :
                       Candidate(Stem, Some(m)) \in out_dir.existing
                 /\ Len(r.warnings) = 1

\* C19: whatever finite set of names the output directory holds,
\* build_output_path returns, and what it returns is a name not in use:
\* <stem>.edited.pdf, or <stem>.edited.<n>.pdf for the least unused n >= 1
\* with a collision warning exactly when <stem>.edited.pdf was in use; it
\* does not raise.
C19_OutputPathResolves ==
    /\ [](ReturnedUnusedPath /\ (out_dir.usable => path_phase # "raised"))
    /\ (path_phase = "call" /\ out_dir.usable) ~> (path_phase = "returned")

\* C19 witness: <stem>.edited.pdf, .1.pdf and .3.pdf are in use and .2.pdf
\* is not: the call returned .2.pdf with a warning.
C19_Witness ==
    /\ path_phase = "returned"
    /\ out_dir.existing = { Candidate(Stem, None), Candidate(Stem, Some(1)),
                            Candidate(Stem, Some(3)) }
    /\ The(path_result).candidate = Candidate(Stem, Some(2))
    /\ Len(The(path_result).warnings) = 1

-----------------------------------------------------------------------------
(* stamp_page_numbers.py                                                   *)
(*                                                                         *)
(* Lengths in inches are counted in halves of an inch, so that a product   *)
(* with the dpi is a number of half pixels.  ink_threshold is in           *)
(* thousandths.  A text is the sequence of its pieces.                     *)

\* int(round(x)) for x = n / 2: Python rounds a half to the even integer.
RoundHalves(n) ==
    LET q == n \div 2
    IN IF n % 2 = 0 THEN q
       ELSE IF q % 2 = 0 THEN q
       ELSE q + 1

\* _box_in_to_pixel_bounds, lines 220-235
BoxInToPixelBounds(box_in, width_px, height_px, dpi) ==
    LET left_px == RoundHalves(box_in[1] * dpi)
        bottom_px == RoundHalves(box_in[2] * dpi)
        right_px == RoundHalves((box_in[1] + box_in[3]) * dpi)
        top_px == RoundHalves((box_in[2] + box_in[4]) * dpi)
    IN <<Max(0, Min(width_px, left_px)),
         Max(0, Min(height_px, height_px - top_px)),
         Max(0, Min(width_px, right_px)),
         Max(0, Min(height_px, height_px - bottom_px))>>

\* _pixel_is_white, lines 347-357
StampPixelIsWhite(red, green, blue, alpha, white_threshold) ==
    IF alpha = Some(0) THEN TRUE
    ELSE /\ red >= white_threshold
         /\ green >= white_threshold
         /\ blue >= white_threshold

\* _median_channel, lines 341-344, of the values value(c) for c in sampled:
\* the value at position len // 2 of the sorted list.
MedianChannel(sampled, value(_)) ==
    LET middle == Cardinality(sampled) \div 2
    IN CHOOSE v \in { value(c) : c \in sampled } :
          /\ Cardinality({ c \in sampled : value(c) < v }) <= middle
          /\ middle < Cardinality({ c \in sampled : value(c) <= v })

RegionRaises ==
    [raised |-> TRUE, cover_color_rgb |-> <<0, 0, 0>>,
     ink_ratio |-> Fraction(0, 1), invalid_sample_area |-> FALSE,
     sample_box_px |-> <<0, 0, 0, 0>>, sampled_pixel_count |-> 0]

\* _sample_box_region, lines 163-217
SampleBoxRegion(bitmap, box_in, dpi, white_threshold) ==
    LET channels == bitmap.n_channels
        raw == bitmap.buffer
        box == BoxInToPixelBounds(box_in, bitmap.width, bitmap.height, dpi)
        x0 == box[1]
        y0 == box[2]
        x1 == box[3]
        y1 == box[4]
        pixel_count == Max(0, x1 - x0) * Max(0, y1 - y0)
        sampled == (x0..(x1 - 1)) \X (y0..(y1 - 1))
        Offset(c) == c[2] * bitmap.stride + c[1] * channels
        Byte(c, k) == raw[Offset(c) + k + 1]
        Red(c) == Byte(c, 2)
        Green(c) == Byte(c, 1)
        Blue(c) == Byte(c, 0)
        NonWhite(c) ==
            ~StampPixelIsWhite(Red(c), Green(c), Blue(c),
                               IF channels >= 4 THEN Some(Byte(c, 3))
                               ELSE None,
                               white_threshold)
    IN IF pixel_count = 0
       THEN [raised |-> FALSE, cover_color_rgb |-> <<255, 255, 255>>,
             ink_ratio |-> Fraction(0, 1), invalid_sample_area |-> TRUE,
             sample_box_px |-> box, sampled_pixel_count |-> 0]
       ELSE IF \E c \in sampled :
                  Offset(c) + (IF channels >= 4 THEN 3 ELSE 2) >= Len(raw)
       THEN RegionRaises
       ELSE [raised |-> FALSE,
             cover_color_rgb |-> <<MedianChannel(sampled, Red),
                                   MedianChannel(sampled, Green),
                                   MedianChannel(sampled, Blue)>>,
             ink_ratio |->
                 Fraction(Cardinality({ c \in sampled : NonWhite(c) }),
                          pixel_count),
             invalid_sample_area |-> FALSE,
             sample_box_px |-> box,
             sampled_pixel_count |-> pixel_count]

\* The value/symbol pairs of to_roman, lines 131-145
Numerals ==
    <<<<1000, "M">>, <<900, "CM">>, <<500, "D">>, <<400, "CD">>,
      <<100, "C">>, <<90, "XC">>, <<50, "L">>, <<40, "XL">>,
      <<10, "X">>, <<9, "IX">>, <<5, "V">>, <<4, "IV">>, <<1, "I">>>>

\* lines 146-152: the loops over the pairs, from pair k on
RECURSIVE RomanFrom(_, _)
RomanFrom(remaining, k) ==
    IF k > Len(Numerals) THEN << >>
    ELSE IF remaining >= Numerals[k][1]
    THEN <<Numerals[k][2]>> \o RomanFrom(remaining - Numerals[k][1], k)
    ELSE RomanFrom(remaining, k + 1)

\* Mutant of line 129: zero has a numeral, the empty one.
ToRomanOfZero(value) ==
    IF value < 0 THEN None ELSE Some(RomanFrom(value, 1))

\* to_roman, lines 127-152: None stands for the ValueError
ToRoman(value) ==
    IF value <= 0 THEN None ELSE Some(RomanFrom(value, 1))

\* str.lower() of a symbol of to_roman
Lower(symbol) ==
    CASE symbol = "M" -> "m" [] symbol = "CM" -> "cm" [] symbol = "D" -> "d"
      [] symbol = "CD" -> "cd" [] symbol = "C" -> "c" [] symbol = "XC" -> "xc"
      [] symbol = "L" -> "l" [] symbol = "XL" -> "xl" [] symbol = "X" -> "x"
      [] symbol = "IX" -> "ix" [] symbol = "V" -> "v" [] symbol = "IV" -> "iv"
      [] symbol = "I" -> "i"

\* str(n) for n >= 0: the decimal digits
RECURSIVE Str(_)
Str(n) ==
    LET digit == <<"0", "1", "2", "3", "4", "5", "6", "7", "8", "9">>
    IN IF n < 10 THEN <<digit[n + 1]>>
       ELSE Str(n \div 10) \o <<digit[(n % 10) + 1]>>

\* format_page_label, lines 115-124: the pieces of the template, the
\* placeholders replaced; None when to_roman raises
RECURSIVE FormatPageLabel(_, _)
FormatPageLabel(output_page_number, pagenum_format) ==
    IF pagenum_format = << >> THEN Some(<< >>)
    ELSE LET piece == Head(pagenum_format)
             rest == FormatPageLabel(output_page_number, Tail(pagenum_format))
             roman == ToRoman(output_page_number)
             RomanLower == [i \in 1..Len(The(roman)) |-> Lower(The(roman)[i])]
         IN IF IsNone(rest) THEN None
            ELSE IF piece \in {"{ROMAN}", "{roman}"} /\ IsNone(roman) THEN None
            ELSE Some((CASE piece = "{ROMAN}" -> The(roman)
                         [] piece = "{roman}" -> RomanLower
                         [] piece = "{page}" -> Str(output_page_number)
                         [] OTHER -> <<piece>>)
                      \o The(rest))

\* _text_color_rgb, lines 335-338
TextColorRgb(cover_color_rgb) ==
    IF 299 * cover_color_rgb[1] + 587 * cover_color_rgb[2]
         + 114 * cover_color_rgb[3] >= 186000
    THEN <<0, 0, 0>>
    ELSE <<255, 255, 255>>

\* _create_overlay_page, lines 243-263: what is painted over the page
Overlay(box_in, label, font_name, font_size, cover_color_rgb) ==
    [box_in |-> box_in, label |-> label, font_name |-> font_name,
     font_size |-> font_size, cover_color_rgb |-> cover_color_rgb,
     text_rgb |-> TextColorRgb(cover_color_rgb)]

\* Mutant of line 64: a page whose ink ratio equals the threshold is skipped.
StampPageNonStrict(pg, output_page_index, a) ==
    LET region_stats == SampleBoxRegion(pg.bitmap, a.pagenum_box_in,
                                        a.render_dpi, a.white_threshold)
        output_page_number == output_page_index + 1
        label == FormatPageLabel(output_page_number, a.pagenum_format)
        invalid_sample_area == region_stats.invalid_sample_area
        ink_ratio == region_stats.ink_ratio
        skipped == ~a.force /\ (invalid_sample_area
                                \/ ink_ratio.num * 1000
                                     >= a.ink_threshold * ink_ratio.den)
        Record(action, reason) ==
            [forced |-> a.force /\ ~skipped,
             action |-> action,
             box_ink_ratio |-> ink_ratio,
             cover_color_rgb |-> region_stats.cover_color_rgb,
             output_page_index |-> output_page_index,
             output_page_number |-> output_page_number,
             reason |-> reason,
             sample_box_px |-> region_stats.sample_box_px,
             stamped_label |-> The(label)]
    IN IF ~pg.loads \/ ~pg.renders \/ region_stats.raised \/ IsNone(label)
       THEN [raised |-> TRUE, record |-> << >>, overlay |-> None]
       ELSE IF skipped
       THEN [raised |-> FALSE,
             record |-> Record("skipped_guardrail",
                               IF invalid_sample_area
                               THEN "invalid_sample_area"
                               ELSE "ink_threshold_exceeded"),
             overlay |-> None]
       ELSE [raised |-> FALSE,
             record |-> Record(IF a.force THEN "stamped_forced" ELSE "stamped",
                               IF a.force THEN "stamped_forced" ELSE "stamped"),
             overlay |-> Some(Overlay(a.pagenum_box_in, The(label),
                                      a.pagenum_font, a.pagenum_size,
                                      region_stats.cover_color_rgb))]

\* lines 43-112: the body of the loop for one writer page, pg being what
\* pdfium makes of it.  overlay is what page.merge_page receives, if called.
StampPage(pg, output_page_index, a) ==
    LET region_stats == SampleBoxRegion(pg.bitmap, a.pagenum_box_in,
                                        a.render_dpi, a.white_threshold)
        output_page_number == output_page_index + 1
        label == FormatPageLabel(output_page_number, a.pagenum_format)
        invalid_sample_area == region_stats.invalid_sample_area
        ink_ratio == region_stats.ink_ratio
        skipped == ~a.force /\ (invalid_sample_area
                                \/ ink_ratio.num * 1000
                                     > a.ink_threshold * ink_ratio.den)
        Record(action, reason) ==
            [forced |-> a.force /\ ~skipped,
             action |-> action,
             box_ink_ratio |-> ink_ratio,
             cover_color_rgb |-> region_stats.cover_color_rgb,
             output_page_index |-> output_page_index,
             output_page_number |-> output_page_number,
             reason |-> reason,
             sample_box_px |-> region_stats.sample_box_px,
             stamped_label |-> The(label)]
    IN IF ~pg.loads \/ ~pg.renders \/ region_stats.raised \/ IsNone(label)
       THEN [raised |-> TRUE, record |-> << >>, overlay |-> None]
       ELSE IF skipped
       THEN [raised |-> FALSE,
             record |-> Record("skipped_guardrail",
                               IF invalid_sample_area
                               THEN "invalid_sample_area"
                               ELSE "ink_threshold_exceeded"),
             overlay |-> None]
       ELSE [raised |-> FALSE,
             record |-> Record(IF a.force THEN "stamped_forced" ELSE "stamped",
                               IF a.force THEN "stamped_forced" ELSE "stamped"),
             overlay |-> Some(Overlay(a.pagenum_box_in, The(label),
                                      a.pagenum_font, a.pagenum_size,
                                      region_stats.cover_color_rgb))]

-----------------------------------------------------------------------------
(* Bounded calls of the stamper *)

MaxStampPages == 2

\* The bitmaps at most two pixels wide.
StampBitmaps == { b \in Bitmaps : b.width <= 2 }

\* The writer pages as pdfium sees them, those that fail included.
StampPages ==
    { RenderPage(TRUE, TRUE, b) : b \in StampBitmaps \cup BadBitmaps }
    \cup { RenderPage(FALSE, FALSE, NoBitmap), RenderPage(TRUE, FALSE, NoBitmap) }

FewStampPages ==
    { RenderPage(TRUE, TRUE, Bitmap(1, 1, 4, <<<<255, 255, 255, 255>>>>)),
      RenderPage(TRUE, TRUE, Bitmap(1, 1, 4, <<<<0, 0, 0, 255>>>>)),
      RenderPage(TRUE, TRUE, Bitmap(0, 1, 4, << >>)) }

\* (x, y, width, height) in halves of an inch: one inch square at the
\* origin, the same without width, one far off the page, and one that
\* starts half an inch in.
Boxes == { <<0, 0, 2, 2>>, <<0, 0, 0, 2>>, <<8, 0, 2, 2>>, <<1, 0, 1, 2>> }

Formats == { <<"{page}">>, <<"Page ", "{ROMAN}">>, <<"{roman}", " of n">> }

StampArgs(pages, kept, box_in, format, dpi, ink_threshold, force, pdfium) ==
    [pages |-> pages, pages_kept_original_indices |-> kept,
     pagenum_box_in |-> box_in, pagenum_font |-> "Helvetica",
     pagenum_size |-> 10, pagenum_format |-> format, render_dpi |-> dpi,
     white_threshold |-> 240, ink_threshold |-> ink_threshold,
     force |-> force, backend |-> pdfium]

-----------------------------------------------------------------------------
(* SpecStamp: one call of stamp_page_numbers.                              *)

notStamp ==
    <<scanVars, pageVars, fileVars, renderVars, rewriteVars, pathVars,
      callVars>>

\* lines 32-40: the import, and the test of the two lengths
EnterStamp ==
    /\ stamp_phase = "call"
    /\ stamp_phase' =
          IF ~stamp_args.backend THEN "raised"
          ELSE IF Len(stamp_args.pages)
                    # Len(stamp_args.pages_kept_original_indices)
          THEN "raised"
          ELSE "pages"
    /\ UNCHANGED <<stamp_args, stamp_decisions, merged, notStamp>>

\* Mutant of lines 42-58: the page is numbered after its original index.
StampOnePageByOriginalIndex ==
    /\ stamp_phase = "pages"
    /\ Len(merged) < Len(stamp_args.pages_kept_original_indices)
    /\ LET output_page_index == Len(merged)
           r == StampPage(stamp_args.pages[output_page_index + 1],
                          stamp_args.pages_kept_original_indices[
                              output_page_index + 1],
                          stamp_args)
       IN IF r.raised
          THEN /\ stamp_phase' = "raised"
               /\ UNCHANGED <<stamp_decisions, merged>>
          ELSE /\ stamp_decisions' = Append(stamp_decisions, r.record)
               /\ merged' = Append(merged, r.overlay)
               /\ UNCHANGED stamp_phase
    /\ UNCHANGED <<stamp_args, notStamp>>

\* lines 42-112: one turn of the loop
StampOnePage ==
    /\ stamp_phase = "pages"
    /\ Len(merged) < Len(stamp_args.pages_kept_original_indices)
    /\ LET output_page_index == Len(merged)
           r == StampPage(stamp_args.pages[output_page_index + 1],
                          output_page_index, stamp_args)
       IN IF r.raised
          THEN /\ stamp_phase' = "raised"
               /\ UNCHANGED <<stamp_decisions, merged>>
          ELSE /\ stamp_decisions' = Append(stamp_decisions, r.record)
               /\ merged' = Append(merged, r.overlay)
               /\ UNCHANGED stamp_phase
    /\ UNCHANGED <<stamp_args, notStamp>>

\* line 42: the loop is over
ReturnStamped ==
    /\ stamp_phase = "pages"
    /\ Len(merged) = Len(stamp_args.pages_kept_original_indices)
    /\ stamp_phase' = "returned"
    /\ UNCHANGED <<stamp_args, stamp_decisions, merged, notStamp>>

StampNext ==
    \/ EnterStamp
    \/ StampOnePage
    \/ ReturnStamped

StampInit ==
    /\ NoScan
    /\ NoPage
    /\ NoCall
    /\ NoFile
    /\ NoRender
    /\ NoRewrite
    /\ NoPath
    /\ stamp_phase = "call"
    /\ \/ \E pg \in StampPages, box \in Boxes, dpi \in {1, 2},
             ink_threshold \in {0, 500}, force \in BOOLEAN :
             stamp_args = StampArgs(<<pg>>, <<0>>, box, <<"{page}">>, dpi,
                                    ink_threshold, force, TRUE)
       \/ \E n \in 0..MaxStampPages :
             \E pages \in [1..n -> FewStampPages],
                kept \in {Range(n), <<0>>, [i \in 1..n |-> i]},
                format \in Formats, force, pdfium \in BOOLEAN :
                stamp_args = StampArgs(pages, kept, <<0, 0, 2, 2>>, format, 1,
                                       500, force, pdfium)
    /\ stamp_decisions = << >>
    /\ merged = << >>

SpecStamp == StampInit /\ [][StampNext]_vars

-----------------------------------------------------------------------------
(* Claims on the stamper *)

\* What _sample_box_region finds for the writer page of index k.
RegionOf(k) ==
    SampleBoxRegion(stamp_args.pages[k + 1].bitmap, stamp_args.pagenum_box_in,
                    stamp_args.render_dpi, stamp_args.white_threshold)

\* C20: a page whose sample area has no pixel is not stamped, forced or
\* not: its record has action skipped_guardrail and nothing is merged onto
\* the page.
C20_DegenerateAreaNeverStamped ==
    \A k \in 0..(Len(merged) - 1) :
        RegionOf(k).sampled_pixel_count = 0 =>
            /\ stamp_decisions[k + 1].action = "skipped_guardrail"
            /\ IsNone(merged[k + 1])

\* C21: for a page whose sample area has a pixel, the page is skipped, with
\* action skipped_guardrail and nothing merged, when its ink ratio is
\* above ink_threshold and force is not set; otherwise the overlay is
\* merged and the action is stamped_forced with force and stamped without.
C21_GuardrailDecides ==
    \A k \in 0..(Len(merged) - 1) :
        LET region == RegionOf(k)
            ratio == region.ink_ratio
            above == ratio.num * 1000 > stamp_args.ink_threshold * ratio.den
            record == stamp_decisions[k + 1]
        IN region.sampled_pixel_count > 0 =>
              IF above /\ ~stamp_args.force
              THEN /\ record.action = "skipped_guardrail"
                   /\ IsNone(merged[k + 1])
              ELSE /\ ~IsNone(merged[k + 1])
                   /\ record.action = IF stamp_args.force THEN "stamped_forced"
                                      ELSE "stamped"

\* C21 witness: with force, a page whose box holds no ink is stamped as
\* forced.
C21_Witness ==
    /\ Len(merged) = 1
    /\ RegionOf(0).sampled_pixel_count > 0
    /\ stamp_args.force
    /\ RegionOf(0).ink_ratio.num = 0
    /\ stamp_decisions[1].action = "stamped_forced"
    /\ ~IsNone(merged[1])

\* C22: when the stamper has returned there is one record for each writer
\* page, in the order of the output; record k (from 0) has
\* output_page_index k, output_page_number k + 1 whatever the original
\* index of the page, and the template formatted with k + 1 as its label.
C22_OneRecordPerPage ==
    stamp_phase = "returned" =>
        /\ Len(stamp_decisions) = Len(stamp_args.pages)
        /\ Len(stamp_decisions) = Len(stamp_args.pages_kept_original_indices)
        /\ \A k \in 0..(Len(stamp_decisions) - 1) :
              LET record == stamp_decisions[k + 1]
              IN /\ record.output_page_index = k
                 /\ record.output_page_number = k + 1
                 /\ record.action \in
                       {"stamped", "stamped_forced", "skipped_guardrail"}
                 /\ Some(record.stamped_label) =
                       FormatPageLabel(k + 1, stamp_args.pagenum_format)

\* C22 witness: the pages of original index 1 and 2 are stamped as pages I
\* and II, one of them skipped.
C22_Witness ==
    /\ stamp_phase = "returned"
    /\ stamp_args.pages_kept_original_indices = <<1, 2>>
    /\ stamp_args.pagenum_format = <<"Page ", "{ROMAN}">>
    /\ stamp_decisions[1].stamped_label = <<"Page ", "I">>
    /\ stamp_decisions[2].stamped_label = <<"Page ", "I", "I">>
    /\ stamp_decisions[1].action = "stamped"
    /\ stamp_decisions[2].action = "skipped_guardrail"

-----------------------------------------------------------------------------
(* SpecRoman: one call of to_roman.                                        *)

MaxRoman == 3999

\* The arguments: some that have no numeral, and those up to MaxRoman.
RomanValues == (-3)..MaxRoman

notRoman ==
    <<scanVars, pageVars, fileVars, renderVars, rewriteVars, pathVars,
      stampVars, runVars>>

\* to_roman, lines 127-152
CallToRoman ==
    /\ roman_phase = "call"
    /\ LET r == ToRoman(roman_value)
       IN /\ roman_phase' = IF IsNone(r) THEN "raised" ELSE "returned"
          /\ roman_result' = r
    /\ UNCHANGED <<roman_value, notRoman>>

RomanNext == CallToRoman

RomanInit ==
    /\ NoScan
    /\ NoPage
    /\ NoFile
    /\ NoRender
    /\ NoRewrite
    /\ NoPath
    /\ NoStamp
    /\ NoRun
    /\ roman_phase = "call"
    /\ roman_value \in RomanValues
    /\ roman_result = None

SpecRoman == RomanInit /\ [][RomanNext]_vars

-----------------------------------------------------------------------------
(* Claims on to_roman *)

\* The symbol s, n times.
Repeated(s, n) == [i \in 1..n |-> s]

\* The numeral of one decimal digit d, written with the symbols of its
\* rank: one, four, five and nine units of the rank.
DigitNumeral(d, one, four, five, nine) ==
    CASE d <= 3 -> Repeated(one, d)
      [] d = 4 -> <<four>>
      [] d \in 5..8 -> <<five>> \o Repeated(one, d - 5)
      [] d = 9 -> <<nine>>

\* The standard numeral of n >= 1, rank by rank.
StandardNumeral(n) ==
    Repeated("M", n \div 1000)
    \o DigitNumeral((n \div 100) % 10, "C", "CD", "D", "CM")
    \o DigitNumeral((n \div 10) % 10, "X", "XL", "L", "XC")
    \o DigitNumeral(n % 10, "I", "IV", "V", "IX")

SymbolValue(s) ==
    CASE s = "M" -> 1000 [] s = "CM" -> 900 [] s = "D" -> 500
      [] s = "CD" -> 400 [] s = "C" -> 100 [] s = "XC" -> 90
      [] s = "L" -> 50 [] s = "XL" -> 40 [] s = "X" -> 10
      [] s = "IX" -> 9 [] s = "V" -> 5 [] s = "IV" -> 4 [] s = "I" -> 1

RECURSIVE SumOfSymbols(_)
SumOfSymbols(symbols) ==
    IF symbols = << >> THEN 0
    ELSE SymbolValue(Head(symbols)) + SumOfSymbols(Tail(symbols))

\* C23: for n >= 1 to_roman returns the standard uppercase numeral of n,
\* whose symbols' values add up to n; for n <= 0 it raises and returns
\* nothing.
C23_ToRomanIsStandard ==
    roman_phase # "call" =>
        IF roman_value <= 0
        THEN roman_phase = "raised" /\ IsNone(roman_result)
        ELSE /\ roman_phase = "returned"
             /\ roman_result = Some(StandardNumeral(roman_value))
             /\ SumOfSymbols(The(roman_result)) = roman_value

\* C23 witness: 1994 gave MCMXCIV.
C23_Witness ==
    /\ roman_phase = "returned"
    /\ roman_value = 1994
    /\ roman_result = Some(<<"M", "CM", "XC", "IV">>)

-----------------------------------------------------------------------------
(* cli.py: the loop of run_cli over the discovered files, lines 224-226,   *)
(* with process_pdf as a function of the file, the configuration and the   *)
(* names the output directory holds.                                       *)
(*                                                                         *)
(* A file is what reading it gives: opens ("ok", "encrypted" or            *)
(* "unreadable"), the document, the structural decisions, render (what the *)
(* render detector returns, None when it raises), events (pypdf warnings   *)
(* were captured) and env (what raises inside rewrite_pdf).                *)

\* Most files discovered by a run.
MaxFiles == 3

InputFile(stem, opens, document_read, structural, render, events, env) ==
    [stem |-> stem, opens |-> opens, source |-> document_read,
     structural |-> structural, render |-> render, events |-> events,
     env |-> env]

\* The FileResult of process_pdf, as far as the report counts it.
FileResult(input_path, file_status, original, removed, output, path) ==
    [input_path |-> input_path, status |-> file_status,
     pages_original |-> original, pages_removed |-> removed,
     pages_output |-> output, output_path |-> path]

\* build_output_path, lines 260-277, in a directory holding names: the
\* first candidate from suffix n on that nothing is named after.
RECURSIVE ProbeFrom(_, _, _)
ProbeFrom(stem, n, names) ==
    IF Candidate(stem, Some(n)) \notin names THEN Candidate(stem, Some(n))
    ELSE ProbeFrom(stem, NextSuffix(n), names)

BuildOutputPath(stem, names) ==
    IF Candidate(stem, None) \notin names THEN Candidate(stem, None)
    ELSE ProbeFrom(stem, 1, names)

\* process_pdf, lines 23-257: the FileResult and the names the output
\* directory holds afterwards.  rc is [config, mode, backend, pagenum_box,
\* existing].
ProcessPdf(input_path, file, rc, names) ==
    LET failed(original, removed) ==
            [result |-> FileResult(input_path, "failed", original, removed,
                                   0, None),
             names |-> names]
        render_runs == rc.mode \in {"render", "both"}
        render_decisions_read ==
            IF render_runs THEN file.render ELSE None
        combined == CombineDecisions(file.structural, render_decisions_read,
                                     rc.mode)
        original == file.source.pages
        pages_to_keep == PagesToKeep(combined.decisions)
        removed == original - Len(pages_to_keep)
        planned == removed > 0 \/ rc.config.write_when_unchanged
        candidate == BuildOutputPath(file.stem, names)
        unwritten(file_status) ==
            [result |-> FileResult(input_path, file_status, original, removed,
                                   IF removed # 0 THEN Len(pages_to_keep)
                                   ELSE original,
                                   IF planned THEN Some(candidate) ELSE None),
             names |-> names]
        args == RewriteArgs(IF removed > 0 THEN pages_to_keep
                            ELSE Range(original),
                            "drop", TRUE, rc.config.stamp_page_numbers)
        r == RewritePdf(file.source, args, file.env)
        opened == file.env.write_raises
                  /\ ~(args.stamp /\ file.env.stamp_raises)
    IN IF file.opens # "ok" THEN failed(0, 0)
       ELSE IF render_runs /\ (~rc.backend \/ IsNone(file.render))
       THEN failed(0, 0)
       ELSE IF combined.raised # "" THEN failed(0, 0)
       ELSE IF rc.config.strict_xref /\ file.events THEN failed(original, 0)
       ELSE IF rc.config.stamp_page_numbers /\ planned /\ ~rc.backend
       THEN failed(original, removed)
       ELSE IF rc.config.dry_run
       THEN unwritten(IF removed > 0 THEN "dry_run" ELSE "unchanged")
       ELSE IF ~planned THEN unwritten("unchanged")
       ELSE IF rc.config.stamp_page_numbers /\ ~rc.pagenum_box
       THEN failed(original, removed)
       ELSE IF r.raised
       THEN [result |-> FileResult(input_path, "failed", original, removed,
                                   0, None),
             names |-> IF opened THEN names \cup {candidate} ELSE names]
       ELSE [result |-> FileResult(input_path,
                                   IF removed > 0 THEN "edited" ELSE "copied",
                                   original, removed, r.pages_output,
                                   Some(candidate)),
             names |-> names \cup {candidate}]

-----------------------------------------------------------------------------
(* Bounded runs *)

Flags(verdicts, flags) ==
    [i \in 1..Len(flags) |->
        PageDecision(i - 1, flags[i],
                     IF flags[i] THEN verdicts[1] ELSE verdicts[2])]

StructuralOf(flags) == Flags(<<"no_paint_ops", "visible_text">>, flags)
RenderOf(flags) ==
    Some(Flags(<<"ink_below_threshold", "ink_above_threshold">>, flags))

Quiet == [stamp_raises |-> FALSE, write_raises |-> FALSE]

\* Two files with an empty first page, one of which cannot be written; a
\* file of another stem with an empty last page; a file without an empty
\* page that pypdf warns about; an encrypted and an unreadable file; a file
\* of which the render detector counts one page; and a file whose stamping
\* raises.
RunFiles ==
    { InputFile(Stem, "ok", Source(2, << >>, FALSE, 0),
                StructuralOf(<<TRUE, FALSE>>), RenderOf(<<TRUE, FALSE>>),
                FALSE, env) :
        env \in { Quiet, [stamp_raises |-> FALSE, write_raises |-> TRUE] } }
    \cup
    { InputFile(OtherStem, "ok", Source(2, << >>, FALSE, 0),
                StructuralOf(<<FALSE, TRUE>>), RenderOf(<<FALSE, TRUE>>),
                FALSE, env) :
        env \in { Quiet, [stamp_raises |-> TRUE, write_raises |-> FALSE] } }
    \cup
    { InputFile(Stem, "ok", Source(1, << >>, FALSE, 0),
                StructuralOf(<<FALSE>>), RenderOf(<<FALSE>>), TRUE, Quiet) }
    \cup
    { InputFile(Stem, opens, Source(0, << >>, FALSE, 0), << >>, None, FALSE,
                Quiet) :
        opens \in {"encrypted", "unreadable"} }
    \cup
    { InputFile(Stem, "ok", Source(2, << >>, FALSE, 0),
                StructuralOf(<<TRUE, FALSE>>), RenderOf(<<TRUE>>), FALSE,
                Quiet) }

\* The names the output directory holds when the run begins.
ExistingNames == { {}, {Candidate(Stem, None)} }

\* A run's configuration, with existing, the names of the output directory
\* at its beginning: both detectors with the render backend, stamping
\* without a pagenum_box, and no render backend.
RunConfigs ==
    { [config |-> c, mode |-> "both", backend |-> TRUE, pagenum_box |-> TRUE,
       existing |-> e] : c \in Configs, e \in ExistingNames }
    \cup
    { [config |-> c, mode |-> "structural", backend |-> TRUE,
       pagenum_box |-> FALSE, existing |-> {}] :
        c \in { d \in Configs : d.stamp_page_numbers } }
    \cup
    { [config |-> c, mode |-> "structural", backend |-> FALSE,
       pagenum_box |-> TRUE, existing |-> {}] : c \in Configs }

-----------------------------------------------------------------------------
(* SpecRun: one run of the command line over the files discovered.         *)

notRun ==
    <<scanVars, pageVars, fileVars, renderVars, rewriteVars, pathVars,
      stampVars, romanVars>>

\* Mutant of lines 224-226: the loop is left after a failed file.
ProcessNextFileStopping ==
    /\ run_phase = "loop"
    /\ Len(files) < Len(discovered)
    /\ LET pdf_path == Len(files) + 1
           r == ProcessPdf(pdf_path, discovered[pdf_path], run_config,
                           out_names)
       IN /\ files' = Append(files, r.result)
          /\ out_names' = r.names
          /\ run_phase' = IF r.result.status = "failed" THEN "reported"
                          ELSE "loop"
    /\ UNCHANGED <<run_config, discovered, notRun>>

\* lines 224-226: one turn of the loop
ProcessNextFile ==
    /\ run_phase = "loop"
    /\ Len(files) < Len(discovered)
    /\ LET pdf_path == Len(files) + 1
           r == ProcessPdf(pdf_path, discovered[pdf_path], run_config,
                           out_names)
       IN /\ files' = Append(files, r.result)
          /\ out_names' = r.names
    /\ UNCHANGED <<run_phase, run_config, discovered, notRun>>

\* lines 240-258: the loop is over, and the run is reported
FinishRun ==
    /\ run_phase = "loop"
    /\ Len(files) = Len(discovered)
    /\ run_phase' = "reported"
    /\ UNCHANGED <<run_config, discovered, out_names, files, notRun>>

RunNext == ProcessNextFile \/ FinishRun

\* lines 219-224: the output directory is made, empty or holding the first
\* name of a stem, and the files are discovered.
RunInit ==
    /\ NoScan
    /\ NoPage
    /\ NoFile
    /\ NoRender
    /\ NoRewrite
    /\ NoPath
    /\ NoStamp
    /\ NoRoman
    /\ run_phase = "loop"
    /\ run_config \in RunConfigs
    /\ out_names = run_config.existing
    /\ discovered \in SeqsUpTo(RunFiles, MaxFiles)
    /\ files = << >>

SpecRun == RunInit /\ [][RunNext]_vars

-----------------------------------------------------------------------------
(* Claims on the run *)

\* The FileResults of a run over a list of files.
RECURSIVE RunFrom(_, _, _, _)
RunFrom(list, k, rc, names) ==
    IF k > Len(list) THEN << >>
    ELSE LET r == ProcessPdf(k, list[k], rc, names)
         IN <<r.result>> \o RunFrom(list, k + 1, rc, r.names)

\* The list without its i-th file.
Without(list, i) == SubSeq(list, 1, i - 1) \o SubSeq(list, i + 1, Len(list))

Counts(file_result) ==
    [status |-> file_result.status,
     pages_original |-> file_result.pages_original,
     pages_removed |-> file_result.pages_removed,
     pages_output |-> file_result.pages_output]

\* C24: when the run is over every discovered file has its FileResult, in
\* discovery order; an encrypted or unreadable file, a file whose decisions
\* the combiner rejects and a file whose rewrite raised are failed; and for
\* every failed file, each other file has the status and the page counts it
\* has in the run over the same files without the failed one.
C24_FailureIsolated ==
    run_phase = "reported" =>
        /\ Len(files) = Len(discovered)
        /\ \A k \in 1..Len(files) :
              /\ files[k].input_path = k
              /\ discovered[k].opens # "ok" => files[k].status = "failed"
        /\ \A i \in 1..Len(files) :
              files[i].status = "failed" =>
                 LET others == RunFrom(Without(discovered, i), 1, run_config,
                                       run_config.existing)
                 IN \A k \in 1..Len(files) :
                       /\ k < i => Counts(files[k]) = Counts(others[k])
                       /\ k > i => Counts(files[k]) = Counts(others[k - 1])

\* C24 witness: of three files the second, whose rewrite raised while the
\* output was written, is failed, and the first and the third, of the same
\* stem, are edited.
C24_Witness ==
    /\ run_phase = "reported"
    /\ Len(files) = 3
    /\ files[1].status = "edited"
    /\ files[2].status = "failed"
    /\ discovered[2].env.write_raises
    /\ files[3].status = "edited"
    /\ discovered[1].stem = discovered[2].stem
    /\ discovered[3].stem = discovered[2].stem
    /\ files[3].output_path = Some(Candidate(Stem, Some(2)))

=============================================================================
